---- MODULE Spec2Model ----
(***************************************************************************)
(* Conversation synchronisation core of xmtp.mx (XMTPWebmailClient):       *)
(* the React state of the component, the asynchronous handlers that write  *)
(* it, and the pure projections computed from it.                          *)
(*                                                                         *)
(* Conventions.  A JavaScript string that the code inspects character by   *)
(* character (search text, labels, welcome text) is a sequence of          *)
(* one-character strings.  A string that is only compared for equality     *)
(* (conversation id, inbox id, address) is a TLA+ string.  `undefined' is  *)
(* Undefined for string fields and NoMsg for message fields; `null' is     *)
(* Null.  A DecodedMessage is immutable and identified by its id, so a     *)
(* message is modelled by its id (a positive integer); sentAtNs and        *)
(* conversationId are functions of the id.                                 *)
(*                                                                         *)
(* React is modelled render-atomically: every handler step runs against    *)
(* the state of the latest render, and the effects on the store (selection,*)
(* message load, streams) whose dependencies the step changed run as part  *)
(* of the same step.  The effect that calls initializeXmtpClient is a step *)
(* of its own, so that a failure and the retry that follows it are two     *)
(* states.                                                                 *)
(***************************************************************************)
EXTENDS Integers, Sequences, FiniteSets, TLC

\* ------------------------------------------------------------------ bounds
NumConvs == 2
NumMsgs == 4
MaxBatch == 2
MaxQueryLen == 2
MaxSent == 2
MaxStale == 1
MaxParts == 5
MaxTextLen == 2
MaxCalls == 3

\* ------------------------------------------------------- values and names
Undefined == "undefined"
Null == "null"
\* `undefined' where a string is modelled as a sequence of characters
UndefinedText == <<Undefined>>
NoMsg == 0
WELCOME_CONVERSATION_ID == "welcome-thread"

ConvName(i) == "c" \o ToString(i)
ConvIds == { ConvName(i) : i \in 1..NumConvs }
MsgIds == 1..NumMsgs

\* message.sentAtNs: strictly increasing in the id, except that the last two
\* messages of the universe carry the same timestamp (a tie).
sentAtNs(m) == 150 * (IF m = NumMsgs /\ m > 1 THEN m - 1 ELSE m)

\* message.conversationId
conversationIdOf(m) == ConvName(((m - 1) % NumConvs) + 1)

Range(s) == { s[i] : i \in DOMAIN s }

SeqsUpTo(S, n) == UNION { [1..k -> S] : k \in 0..n }

\* --------------------------------------------------------------- addMessages
\* merged.find((m) => m.id === msg.id)
find(merged, id) == \E i \in DOMAIN merged : merged[i] = id

\* a merge that pushes every incoming message, known or not
mergeIncomingNoFind(merged, incomingArray) == merged \o incomingArray

\* for (const msg of incomingArray) { if (merged.find(...)) continue; merged.push(msg); }
RECURSIVE mergeIncoming(_, _)
mergeIncoming(merged, incomingArray) ==
  IF incomingArray = <<>> THEN merged
  ELSE LET msg == Head(incomingArray)
       IN mergeIncoming(IF find(merged, msg) THEN merged ELSE Append(merged, msg),
                        Tail(incomingArray))

\* a comparator with its operands exchanged
compareSentAtDescending(a, b) == sentAtNs(b) - sentAtNs(a)

\* (a, b) => Number(a.sentAtNs - b.sentAtNs): negative, zero or positive
compareSentAt(a, b) == sentAtNs(a) - sentAtNs(b)

\* Array.prototype.sort is stable: an element is placed after every element
\* that does not compare greater than it.
RECURSIVE insertSorted(_, _)
insertSorted(sorted, x) ==
  IF sorted = <<>> THEN <<x>>
  ELSE IF compareSentAt(Head(sorted), x) > 0 THEN <<x>> \o sorted
       ELSE <<Head(sorted)>> \o insertSorted(Tail(sorted), x)

RECURSIVE sortMessages(_)
sortMessages(s) ==
  IF s = <<>> THEN <<>>
  ELSE insertSorted(sortMessages(SubSeq(s, 1, Len(s) - 1)), s[Len(s)])

\* the updater passed to setMessagesByConversation
addMessages(prev, conversationId, incomingArray) ==
  LET existing == IF conversationId \in DOMAIN prev THEN prev[conversationId] ELSE <<>>
      merged == sortMessages(mergeIncoming(existing, incomingArray))
  IN [c \in DOMAIN prev \cup {conversationId} |->
        IF c = conversationId THEN merged ELSE prev[c]]


\* ------------------------------------------------------------------ strings
Letters ==
  << <<"A", "a">>, <<"B", "b">>, <<"C", "c">>, <<"D", "d">>, <<"E", "e">>, <<"F", "f">>,
     <<"G", "g">>, <<"H", "h">>, <<"I", "i">>, <<"J", "j">>, <<"K", "k">>, <<"L", "l">>,
     <<"M", "m">>, <<"N", "n">>, <<"O", "o">>, <<"P", "p">>, <<"Q", "q">>, <<"R", "r">>,
     <<"S", "s">>, <<"T", "t">>, <<"U", "u">>, <<"V", "v">>, <<"W", "w">>, <<"X", "x">>,
     <<"Y", "y">>, <<"Z", "z">> >>

UpperCaseLetters == { Letters[i][1] : i \in DOMAIN Letters }

LowerOf == [ch \in UpperCaseLetters |-> Letters[CHOOSE i \in DOMAIN Letters : Letters[i][1] = ch][2]]

lowerChar(ch) == IF ch \in UpperCaseLetters THEN LowerOf[ch] ELSE ch

\* String.prototype.toLowerCase
toLowerCase(s) == [i \in DOMAIN s |-> lowerChar(s[i])]

isWhiteSpace(ch) == ch \in {" ", "\n", "\t", "\r"}

\* String.prototype.trim
RECURSIVE trimStart(_)
trimStart(s) == IF s # <<>> /\ isWhiteSpace(Head(s)) THEN trimStart(Tail(s)) ELSE s

RECURSIVE trimEnd(_)
trimEnd(s) ==
  IF s # <<>> /\ isWhiteSpace(s[Len(s)]) THEN trimEnd(SubSeq(s, 1, Len(s) - 1)) ELSE s

trim(s) == trimEnd(trimStart(s))

\* String.prototype.includes
includes(s, needle) ==
  \E start \in 0..(Len(s) - Len(needle)) :
    \A k \in 1..Len(needle) : s[start + k] = needle[k]

\* String.prototype.lastIndexOf: the position (from 1) of the last ch, 0 for -1
lastIndexOf(s, ch) ==
  IF \E i \in DOMAIN s : s[i] = ch
  THEN CHOOSE i \in DOMAIN s : s[i] = ch /\ \A j \in DOMAIN s : s[j] = ch => j <= i
  ELSE 0

\* String.prototype.slice(from, to) with positions counted from 1, to excluded
slice(s, from, to) == SubSeq(s, from, to - 1)

AtSign == "@"

XmtpDomain == <<"x", "m", "t", "p", ".", "m", "x">>

\* a parseRecipient that compares the domain as it is written
parseRecipientCaseSensitive(input) ==
  LET trimmed == trim(input)
      at == lastIndexOf(trimmed, AtSign)
      local == trim(slice(trimmed, 1, at))
      domain == trim(slice(trimmed, at + 1, Len(trimmed) + 1))
  IN IF trimmed = <<>>
     THEN [kind |-> "invalid", peer |-> UndefinedText, email |-> UndefinedText,
           error |-> "Recipient is required."]
     ELSE IF at = 0
     THEN [kind |-> "xmtp", peer |-> trimmed, email |-> UndefinedText, error |-> Null]
     ELSE IF local = <<>> \/ domain = <<>>
     THEN [kind |-> "invalid", peer |-> UndefinedText, email |-> UndefinedText,
           error |-> "Invalid email address."]
     ELSE IF domain = XmtpDomain
     THEN [kind |-> "xmtp", peer |-> local, email |-> UndefinedText, error |-> Null]
     ELSE [kind |-> "smtp", peer |-> UndefinedText, email |-> trimmed, error |-> Null]

\* parseRecipient
parseRecipient(input) ==
  LET trimmed == trim(input)
      at == lastIndexOf(trimmed, AtSign)
      local == trim(slice(trimmed, 1, at))
      domain == toLowerCase(trim(slice(trimmed, at + 1, Len(trimmed) + 1)))
  IN IF trimmed = <<>>
     THEN [kind |-> "invalid", peer |-> UndefinedText, email |-> UndefinedText,
           error |-> "Recipient is required."]
     ELSE IF at = 0
     THEN [kind |-> "xmtp", peer |-> trimmed, email |-> UndefinedText, error |-> Null]
     ELSE IF local = <<>> \/ domain = <<>>
     THEN [kind |-> "invalid", peer |-> UndefinedText, email |-> UndefinedText,
           error |-> "Invalid email address."]
     ELSE IF domain = XmtpDomain
     THEN [kind |-> "xmtp", peer |-> local, email |-> UndefinedText, error |-> Null]
     ELSE [kind |-> "smtp", peer |-> UndefinedText, email |-> trimmed, error |-> Null]

\* ------------------------------------------------------- JSON (xmtpEmail.ts)
\* A JSON value is a record: t is its type, s the characters of a string, n a
\* number, f the members of an object (key and value, in order).
Quote == "\""
Backslash == "\\"
BackspaceChar == "<BS>"

JsonUndefined == [t |-> "undefined", s |-> <<>>, n |-> 0, f |-> <<>>]
JsonNull == [t |-> "null", s |-> <<>>, n |-> 0, f |-> <<>>]
JsonBoolean(b) == [t |-> "boolean", s |-> <<>>, n |-> IF b THEN 1 ELSE 0, f |-> <<>>]
JsonString(s) == [t |-> "string", s |-> s, n |-> 0, f |-> <<>>]
JsonNumber(n) == [t |-> "number", s |-> <<>>, n |-> n, f |-> <<>>]
JsonObject(f) == [t |-> "object", s |-> <<>>, n |-> 0, f |-> f]

\* a text field that is not given is undefined
JsonText(s) == IF s = UndefinedText THEN JsonUndefined ELSE JsonString(s)

Digits == <<"0", "1", "2", "3", "4", "5", "6", "7", "8", "9">>

isDigit(ch) == \E d \in DOMAIN Digits : Digits[d] = ch

digitValue(ch) == (CHOOSE d \in DOMAIN Digits : Digits[d] = ch) - 1

\* Number.prototype.toString of a non-negative integer
RECURSIVE numberToString(_)
numberToString(n) ==
  IF n < 10 THEN <<Digits[n + 1]>> ELSE numberToString(n \div 10) \o <<Digits[(n % 10) + 1]>>

\* JSON.stringify: a character of a string
quoteChar(ch) ==
  IF ch = Quote THEN <<Backslash, Quote>>
  ELSE IF ch = Backslash THEN <<Backslash, Backslash>>
  ELSE IF ch = "\n" THEN <<Backslash, "n">>
  ELSE IF ch = "\t" THEN <<Backslash, "t">>
  ELSE IF ch = "\r" THEN <<Backslash, "r">>
  ELSE IF ch = "\f" THEN <<Backslash, "f">>
  ELSE IF ch = BackspaceChar THEN <<Backslash, "b">>
  ELSE <<ch>>

RECURSIVE quoteChars(_)
quoteChars(s) == IF s = <<>> THEN <<>> ELSE quoteChar(Head(s)) \o quoteChars(Tail(s))

quote(s) == <<Quote>> \o quoteChars(s) \o <<Quote>>

\* JSON.stringify: a member whose value is undefined is left out
RECURSIVE stringify(_)
RECURSIVE stringifyMembers(_, _)
stringifyMembers(f, first) ==
  IF f = <<>> THEN <<>>
  ELSE IF Head(f).value.t = "undefined" THEN stringifyMembers(Tail(f), first)
  ELSE (IF first THEN <<>> ELSE <<",">>)
       \o quote(Head(f).key) \o <<":">> \o stringify(Head(f).value)
       \o stringifyMembers(Tail(f), FALSE)

stringify(value) ==
  IF value.t = "string" THEN quote(value.s)
  ELSE IF value.t = "number" THEN numberToString(value.n)
  ELSE IF value.t = "boolean" THEN (IF value.n = 1 THEN <<"t", "r", "u", "e">> ELSE <<"f", "a", "l", "s", "e">>)
  ELSE IF value.t = "null" THEN <<"n", "u", "l", "l">>
  ELSE <<"{">> \o stringifyMembers(value.f, TRUE) \o <<"}">>

\* JSON.parse: the value read from position p on, and the position after it
ParseError == [ok |-> FALSE, value |-> JsonUndefined, next |-> 0]

Parsed(value, next) == [ok |-> TRUE, value |-> value, next |-> next]

RECURSIVE skipWhiteSpace(_, _)
skipWhiteSpace(s, p) ==
  IF p <= Len(s) /\ isWhiteSpace(s[p]) THEN skipWhiteSpace(s, p + 1) ELSE p

startsWith(s, p, word) ==
  /\ p + Len(word) - 1 <= Len(s)
  /\ \A k \in DOMAIN word : s[p + k - 1] = word[k]

isHexDigit(ch) == isDigit(ch) \/ ch \in {"a", "b", "c", "d", "e", "f", "A", "B", "C", "D", "E", "F"}

\* the characters of a string from position p (after the opening quote) on
RECURSIVE parseChars(_, _, _)
parseChars(s, p, acc) ==
  IF p > Len(s) THEN ParseError
  ELSE IF s[p] = Quote THEN Parsed(JsonString(acc), p + 1)
  ELSE IF s[p] \in {"\n", "\t", "\r", "\f", BackspaceChar} THEN ParseError
  ELSE IF s[p] # Backslash THEN parseChars(s, p + 1, Append(acc, s[p]))
  ELSE IF p + 1 > Len(s) THEN ParseError
  ELSE IF s[p + 1] \in {Quote, Backslash, "/"} THEN parseChars(s, p + 2, Append(acc, s[p + 1]))
  ELSE IF s[p + 1] = "n" THEN parseChars(s, p + 2, Append(acc, "\n"))
  ELSE IF s[p + 1] = "t" THEN parseChars(s, p + 2, Append(acc, "\t"))
  ELSE IF s[p + 1] = "r" THEN parseChars(s, p + 2, Append(acc, "\r"))
  ELSE IF s[p + 1] = "f" THEN parseChars(s, p + 2, Append(acc, "\f"))
  ELSE IF s[p + 1] = "b" THEN parseChars(s, p + 2, Append(acc, BackspaceChar))
  ELSE IF s[p + 1] = "u" /\ p + 5 <= Len(s) /\ \A k \in 2..5 : isHexDigit(s[p + k])
  THEN parseChars(s, p + 6, Append(acc, "U+" \o s[p + 2] \o s[p + 3] \o s[p + 4] \o s[p + 5]))
  ELSE ParseError

RECURSIVE parseDigits(_, _, _)
parseDigits(s, p, acc) ==
  IF p <= Len(s) /\ isDigit(s[p]) THEN parseDigits(s, p + 1, 10 * acc + digitValue(s[p]))
  ELSE Parsed(JsonNumber(acc), p)

\* a number: 0, or digits that do not start with 0
parseNumber(s, p) ==
  IF s[p] = "0" THEN Parsed(JsonNumber(0), p + 1) ELSE parseDigits(s, p, 0)

RECURSIVE parseValue(_, _)
RECURSIVE parseMembers(_, _, _)
parseMembers(s, p, acc) ==
  LET keyAt == skipWhiteSpace(s, p)
  IN IF keyAt > Len(s) \/ s[keyAt] # Quote THEN ParseError
     ELSE LET key == parseChars(s, keyAt + 1, <<>>)
          IN IF ~key.ok THEN ParseError
             ELSE LET colonAt == skipWhiteSpace(s, key.next)
                  IN IF colonAt > Len(s) \/ s[colonAt] # ":" THEN ParseError
                     ELSE LET member == parseValue(s, colonAt + 1)
                          IN IF ~member.ok THEN ParseError
                             ELSE LET endAt == skipWhiteSpace(s, member.next)
                                      all == Append(acc, [key |-> key.value.s, value |-> member.value])
                                  IN IF endAt > Len(s) THEN ParseError
                                     ELSE IF s[endAt] = "}" THEN Parsed(JsonObject(all), endAt + 1)
                                     ELSE IF s[endAt] = "," THEN parseMembers(s, endAt + 1, all)
                                     ELSE ParseError

parseValue(s, p) ==
  LET at == skipWhiteSpace(s, p)
  IN IF at > Len(s) THEN ParseError
     ELSE IF s[at] = Quote THEN parseChars(s, at + 1, <<>>)
     ELSE IF isDigit(s[at]) THEN parseNumber(s, at)
     ELSE IF startsWith(s, at, <<"t", "r", "u", "e">>) THEN Parsed(JsonBoolean(TRUE), at + Len(<<"t", "r", "u", "e">>))
     ELSE IF startsWith(s, at, <<"f", "a", "l", "s", "e">>) THEN Parsed(JsonBoolean(FALSE), at + Len(<<"f", "a", "l", "s", "e">>))
     ELSE IF startsWith(s, at, <<"n", "u", "l", "l">>) THEN Parsed(JsonNull, at + Len(<<"n", "u", "l", "l">>))
     ELSE IF s[at] # "{" THEN ParseError
     ELSE LET inner == skipWhiteSpace(s, at + 1)
          IN IF inner <= Len(s) /\ s[inner] = "}" THEN Parsed(JsonObject(<<>>), inner + 1)
             ELSE parseMembers(s, at + 1, <<>>)

\* JSON.parse(text): one value and nothing but white space after it; a
\* SyntaxError is ParseError
parse(text) ==
  LET read == parseValue(text, 1)
  IN IF read.ok /\ skipWhiteSpace(text, read.next) > Len(text) THEN read ELSE ParseError

\* parsed?.key: the last member with that key of an object, else undefined
property(value, key) ==
  IF value.t = "object" /\ \E i \in DOMAIN value.f : value.f[i].key = key
  THEN value.f[CHOOSE i \in DOMAIN value.f :
                 value.f[i].key = key /\ \A j \in DOMAIN value.f : value.f[j].key = key => j <= i].value
  ELSE JsonUndefined

\* ------------------------------------------------------------- xmtpEmail.ts
NoTime == 0 - 1

\* how a content was written, for the contents written like an envelope
NoForm == [v |-> "none", type |-> "none", subject |-> "none", body |-> "none",
           from |-> "none", sentAt |-> "none", wrap |-> "none"]

\* encodeXmtpEmailV1(input) called when Date.now() is now, written without
\* escaping the characters of its strings
encodeXmtpEmailV1Raw(input, now) ==
  <<"{">> \o <<"\"", "v", "\"">> \o <<":", "1", ",">> \o <<"\"", "t", "y", "p", "e", "\"">> \o <<":">> \o <<Quote>> \o <<"e", "m", "a", "i", "l">> \o <<Quote>>
  \o <<",">> \o <<"\"", "s", "u", "b", "j", "e", "c", "t", "\"">> \o <<":", Quote>> \o trim(input.subject) \o <<Quote>>
  \o <<",">> \o <<"\"", "b", "o", "d", "y", "\"">> \o <<":", Quote>> \o input.body \o <<Quote>>
  \o (IF input.from = UndefinedText THEN <<>>
      ELSE <<",">> \o <<"\"", "f", "r", "o", "m", "\"">> \o <<":", Quote>> \o input.from \o <<Quote>>)
  \o (IF input.to = UndefinedText THEN <<>>
      ELSE <<",">> \o <<"\"", "t", "o", "\"">> \o <<":", Quote>> \o input.to \o <<Quote>>)
  \o <<",">> \o <<"\"", "s", "e", "n", "t", "A", "t", "\"">> \o <<":">> \o numberToString(now) \o <<"}">>

\* encodeXmtpEmailV1(input) called when Date.now() is now
encodeXmtpEmailV1(input, now) ==
  stringify(JsonObject(<<
    [key |-> <<"v">>, value |-> JsonNumber(1)],
    [key |-> <<"t", "y", "p", "e">>, value |-> JsonString(<<"e", "m", "a", "i", "l">>)],
    [key |-> <<"s", "u", "b", "j", "e", "c", "t">>, value |-> JsonString(trim(input.subject))],
    [key |-> <<"b", "o", "d", "y">>, value |-> JsonString(input.body)],
    [key |-> <<"f", "r", "o", "m">>, value |-> JsonText(input.from)],
    [key |-> <<"t", "o">>, value |-> JsonText(input.to)],
    [key |-> <<"s", "e", "n", "t", "A", "t">>, value |-> JsonNumber(now)] >>))

DecodedText(text) ==
  [kind |-> "text", text |-> text, subject |-> UndefinedText, body |-> UndefinedText,
   from |-> UndefinedText, to |-> UndefinedText, sentAt |-> NoTime]

ObjectText == <<"[", "o", "b", "j", "e", "c", "t", " ", "O", "b", "j", "e", "c", "t", "]">>

\* String(content ?? '') for a content that is no string
coerce(value) ==
  IF value.type \in {"undefined", "null"} THEN <<>>
  ELSE IF value.type = "number" THEN numberToString(value.number)
  ELSE ObjectText

\* a decodeXmtpEmail whose fallback returns the trimmed text
decodeXmtpEmailTrimmed(value) ==
  IF value.type # "string" THEN DecodedText(coerce(value))
  ELSE LET trimmed == trim(value.text)
           read == parse(trimmed)
       IN IF trimmed = <<>> THEN DecodedText(<<>>)
          ELSE IF ~read.ok THEN DecodedText(trimmed)
          ELSE IF ~(property(read.value, <<"t", "y", "p", "e">>) = JsonString(<<"e", "m", "a", "i", "l">>))
                  \/ ~(property(read.value, <<"v">>) = JsonNumber(1))
          THEN DecodedText(trimmed)
          ELSE IF property(read.value, <<"s", "u", "b", "j", "e", "c", "t">>).t # "string"
                  \/ property(read.value, <<"b", "o", "d", "y">>).t # "string"
          THEN DecodedText(trimmed)
          ELSE [kind |-> "email", text |-> UndefinedText,
                subject |-> property(read.value, <<"s", "u", "b", "j", "e", "c", "t">>).s,
                body |-> property(read.value, <<"b", "o", "d", "y">>).s,
                from |-> IF property(read.value, <<"f", "r", "o", "m">>).t = "string"
                         THEN property(read.value, <<"f", "r", "o", "m">>).s ELSE UndefinedText,
                to |-> IF property(read.value, <<"t", "o">>).t = "string"
                       THEN property(read.value, <<"t", "o">>).s ELSE UndefinedText,
                sentAt |-> IF property(read.value, <<"s", "e", "n", "t", "A", "t">>).t = "number"
                           THEN property(read.value, <<"s", "e", "n", "t", "A", "t">>).n ELSE NoTime]

\* decodeXmtpEmail(content)
decodeXmtpEmail(value) ==
  IF value.type # "string" THEN DecodedText(coerce(value))
  ELSE LET trimmed == trim(value.text)
           read == parse(trimmed)
       IN IF trimmed = <<>> THEN DecodedText(<<>>)
          ELSE IF ~read.ok THEN DecodedText(value.text)
          ELSE IF ~(property(read.value, <<"t", "y", "p", "e">>) = JsonString(<<"e", "m", "a", "i", "l">>))
                  \/ ~(property(read.value, <<"v">>) = JsonNumber(1))
          THEN DecodedText(value.text)
          ELSE IF property(read.value, <<"s", "u", "b", "j", "e", "c", "t">>).t # "string"
                  \/ property(read.value, <<"b", "o", "d", "y">>).t # "string"
          THEN DecodedText(value.text)
          ELSE [kind |-> "email", text |-> UndefinedText,
                subject |-> property(read.value, <<"s", "u", "b", "j", "e", "c", "t">>).s,
                body |-> property(read.value, <<"b", "o", "d", "y">>).s,
                from |-> IF property(read.value, <<"f", "r", "o", "m">>).t = "string"
                         THEN property(read.value, <<"f", "r", "o", "m">>).s ELSE UndefinedText,
                to |-> IF property(read.value, <<"t", "o">>).t = "string"
                       THEN property(read.value, <<"t", "o">>).s ELSE UndefinedText,
                sentAt |-> IF property(read.value, <<"s", "e", "n", "t", "A", "t">>).t = "number"
                           THEN property(read.value, <<"s", "e", "n", "t", "A", "t">>).n ELSE NoTime]

\* the characters of the identifiers the code searches in
InboxName(i) == "i" \o ToString(i)
AddressName(i) == "0xG" \o ToString(i)

Chars(name) ==
  LET i == CHOOSE k \in 1..NumConvs : name \in {ConvName(k), InboxName(k), AddressName(k)}
  IN IF name = ConvName(i) THEN <<"c", ToString(i)>>
     ELSE IF name = InboxName(i) THEN <<"i", ToString(i)>>
     ELSE <<"0", "x", "G", ToString(i)>>

\* WELCOME_MESSAGE (non-ASCII punctuation written in ASCII)
WelcomeSubject ==
  <<"W", "e", "l", "c", "o", "m", "e", " ", "t", "o", " ", "x", "m", "t", "p", ".", "m", "x" >>

WelcomePreview ==
  <<"H", "e", "r", "e", "'", "s", " ", "w", "h", "a", "t", " ", "t", "h", "i", "s", " ", "X", "M",
     "T", "P", " ", "i", "n", "b", "o", "x", " ", "d", "o", "e", "s", " ", "a", "n", "d", " ", "h",
     "o", "w", " ", "t", "o", " ", "t", "r", "y", " ", "i", "t", " ", "o", "u", "t", "." >>

WelcomeBody ==
  <<"H", "i", " ", "t", "h", "e", "r", "e", ",", "\n", "\n", "T", "h", "a", "n", "k", "s", " ",
     "f", "o", "r", " ", "o", "p", "e", "n", "i", "n", "g", " ", "x", "m", "t", "p", ".", "m", "x",
     " ", "-", " ", "a", " ", "G", "m", "a", "i", "l", "-", "i", "n", "s", "p", "i", "r", "e", "d",
     " ", "i", "n", "b", "o", "x", " ", "t", "h", "a", "t", " ", "s", "p", "e", "a", "k", "s", " ",
     "t", "h", "e", " ", "X", "M", "T", "P", " ", "m", "e", "s", "s", "a", "g", "i", "n", "g", " ",
     "n", "e", "t", "w", "o", "r", "k", ".", "\n", "\n", "W", "h", "e", "n", " ", "y", "o", "u",
     " ", "c", "o", "n", "n", "e", "c", "t", " ", "a", " ", "w", "a", "l", "l", "e", "t", ",", " ",
     "w", "e", " ", "g", "e", "n", "e", "r", "a", "t", "e", " ", "a", "n", " ", "X", "M", "T", "P",
     " ", "i", "d", "e", "n", "t", "i", "t", "y", " ", "t", "i", "e", "d", " ", "t", "o", " ", "y",
     "o", "u", "r", " ", "a", "d", "d", "r", "e", "s", "s", " ", "a", "n", "d", " ", "r", "e", "n",
     "d", "e", "r", " ", "c", "o", "n", "v", "e", "r", "s", "a", "t", "i", "o", "n", "s", " ", "l",
     "i", "k", "e", " ", "e", "m", "a", "i", "l", " ", "t", "h", "r", "e", "a", "d", "s", ".", " ",
     "M", "e", "s", "s", "a", "g", "e", "s", " ", "a", "r", "e", " ", "e", "n", "c", "r", "y", "p",
     "t", "e", "d", " ", "e", "n", "d", "-", "t", "o", "-", "e", "n", "d", " ", "a", "n", "d", " ",
     "s", "t", "a", "y", " ", "o", "n", " ", "X", "M", "T", "P", ";", " ", "t", "h", "e", "r", "e",
     " ", "i", "s", " ", "n", "o", " ", "c", "e", "n", "t", "r", "a", "l", " ", "i", "n", "b", "o",
     "x", " ", "s", "e", "r", "v", "e", "r", " ", "h", "e", "r", "e", ".", "\n", "\n", "Y", "o",
     "u", " ", "c", "a", "n", " ", "s", "e", "n", "d", " ", "t", "o", " ", "o", "n", "c", "h", "a",
     "i", "n", " ", "a", "d", "d", "r", "e", "s", "s", "e", "s", " ", "o", "r", " ", "E", "N", "S",
     " ", "n", "a", "m", "e", "s", " ", "(", "e", ".", "g", ".", " ", "d", "e", "a", "n", "p", "i",
     "e", "r", "c", "e", ".", "e", "t", "h", ")", ".", " ", "S", "M", "T", "P", " ", "d", "e", "l",
     "i", "v", "e", "r", "y", " ", "i", "s", " ", "o", "n", " ", "t", "h", "e", " ", "r", "o", "a",
     "d", "m", "a", "p", ",", " ", "b", "u", "t", " ", "t", "o", "d", "a", "y", " ", "y", "o", "u",
     "'", "l", "l", " ", "w", "a", "n", "t", " ", "t", "o", " ", "m", "e", "s", "s", "a", "g", "e",
     " ", "X", "M", "T", "P", " ", "p", "e", "e", "r", "s", ".", "\n", "\n", "I", "f", " ", "s",
     "o", "m", "e", "t", "h", "i", "n", "g", " ", "l", "o", "o", "k", "s", " ", "o", "f", "f", ",",
     " ", "t", "r", "y", " ", "r", "e", "f", "r", "e", "s", "h", "i", "n", "g", " ", "a", "f", "t",
     "e", "r", " ", "c", "o", "n", "n", "e", "c", "t", "i", "n", "g", " ", "y", "o", "u", "r", " ",
     "w", "a", "l", "l", "e", "t", " ", "o", "r", " ", "d", "o", "u", "b", "l", "e", "-", "c", "h",
     "e", "c", "k", "i", "n", "g", " ", "y", "o", "u", "r", " ", "t", "h", "i", "r", "d", "w", "e",
     "b", " ", "c", "l", "i", "e", "n", "t", " ", "I", "D", ".", "\n", "\n", "H", "a", "v", "e",
     " ", "f", "u", "n", ",", " ", "a", "n", "d", " ", "t", "h", "a", "n", "k", "s", " ", "f", "o",
     "r", " ", "t", "e", "s", "t", "i", "n", "g", "!" >>

\* ------------------------------------------------ the conversation store
\* conversationsById is kept as the sequence of its values in key insertion
\* order (the order Object.values enumerates); a summary is
\* [id, peerInboxId, peerAddress, lastMessage], a missing field being undefined.
hasConversation(byId, id) == \E i \in DOMAIN byId : byId[i].id = id

getConversation(byId, id) == byId[CHOOSE i \in DOMAIN byId : byId[i].id = id]

conversationIds(byId) == { byId[i].id : i \in DOMAIN byId }

SummaryKeys == {"peerInboxId", "peerAddress", "lastMessage"}

BlankSummary(id) ==
  [id |-> id, peerInboxId |-> Undefined, peerAddress |-> Undefined, lastMessage |-> NoMsg]

\* { kind, id, ...restExisting, ...summary }: every key the caller's object
\* literal has, also one whose value is undefined, overwrites the existing field
mergeSummary(existing, summary) ==
  [id |-> existing.id,
   peerInboxId |-> IF "peerInboxId" \in DOMAIN summary
                   THEN summary["peerInboxId"] ELSE existing.peerInboxId,
   peerAddress |-> IF "peerAddress" \in DOMAIN summary
                   THEN summary["peerAddress"] ELSE existing.peerAddress,
   lastMessage |-> IF "lastMessage" \in DOMAIN summary
                   THEN summary["lastMessage"] ELSE existing.lastMessage]

\* the updater passed to setConversationsById by upsertConversationSummary;
\* id is summary.conversation.id
upsertConversationSummary(prev, id, summary) ==
  IF hasConversation(prev, id)
  THEN [i \in DOMAIN prev |->
          IF prev[i].id = id THEN mergeSummary(prev[i], summary) ELSE prev[i]]
  ELSE Append(prev, mergeSummary(BlankSummary(id), summary))

\* ------------------------------------------------------------ projection
\* Number(bigint): the nearest double.  Nanosecond timestamps of this decade
\* lie between 2^60 and 2^61, where doubles are DoubleSpacing apart; model
\* timestamps are offsets from a multiple of 2 * DoubleSpacing.
DoubleSpacing == 256

Number(n) ==
  LET q == n \div DoubleSpacing
      r == n % DoubleSpacing
  IN IF 2 * r < DoubleSpacing THEN q * DoubleSpacing
     ELSE IF 2 * r > DoubleSpacing THEN (q + 1) * DoubleSpacing
     ELSE (IF q % 2 = 0 THEN q ELSE q + 1) * DoubleSpacing

\* conversation.createdAtNs of the Dm with this id
createdAtNs(id) == 100 * (CHOOSE k \in 1..NumConvs : ConvName(k) = id)

\* a.lastMessage ? Number(a.lastMessage.sentAtNs) : Number(a.conversation.createdAtNs ?? 0n)
sortTime(a) ==
  IF a.lastMessage # NoMsg THEN Number(sentAtNs(a.lastMessage)) ELSE Number(createdAtNs(a.id))

\* filtered.sort((a, b) => bTime - aTime), a stable sort
RECURSIVE insertByTime(_, _)
insertByTime(sorted, x) ==
  IF sorted = <<>> THEN <<x>>
  ELSE IF sortTime(x) - sortTime(Head(sorted)) > 0 THEN <<x>> \o sorted
       ELSE <<Head(sorted)>> \o insertByTime(Tail(sorted), x)

RECURSIVE sortByTime(_)
sortByTime(s) ==
  IF s = <<>> THEN <<>>
  ELSE insertByTime(sortByTime(SubSeq(s, 1, Len(s) - 1)), s[Len(s)])

\* c.peerAddress ?? c.peerInboxId ?? c.conversation.id
label(c) ==
  IF c.peerAddress # Undefined THEN Chars(c.peerAddress)
  ELSE IF c.peerInboxId # Undefined THEN Chars(c.peerInboxId)
  ELSE Chars(c.id)

RECURSIVE filterByLabel(_, _)
filterByLabel(list, trimmed) ==
  IF list = <<>> THEN <<>>
  ELSE LET c == Head(list)
           keep == trimmed = <<>> \/ includes(toLowerCase(label(c)), trimmed)
       IN (IF keep THEN <<c>> ELSE <<>>) \o filterByLabel(Tail(list), trimmed)

xmtpConversationList(byId, searchText) ==
  sortByTime(filterByLabel(byId, toLowerCase(trim(searchText))))

\* welcomeConversation.subject.toLowerCase() etc., the same value at every call
WelcomeSubjectLower == toLowerCase(WelcomeSubject)
WelcomePreviewLower == toLowerCase(WelcomePreview)
WelcomeBodyLower == toLowerCase(WelcomeBody)

\* the substrings of text that are as long as a search text can be
Substrings(text) ==
  UNION { { SubSeq(text, i, i + n - 1) : i \in 1..(Len(text) - n + 1) } : n \in 1..MaxQueryLen }

WelcomeSubjectParts == Substrings(WelcomeSubjectLower)
WelcomePreviewParts == Substrings(WelcomePreviewLower)
WelcomeBodyParts == Substrings(WelcomeBodyLower)

\* a match that forgets to lower-case the search text
matchesWelcomeCaseSensitive(searchText) ==
  LET trimmed == trim(searchText)
  IN \/ trimmed = <<>>
     \/ trimmed \in WelcomeSubjectParts
     \/ trimmed \in WelcomePreviewParts
     \/ trimmed \in WelcomeBodyParts

\* text.includes(trimmed) for the three welcome texts, decided by looking the
\* search text up among the substrings of the text
matchesWelcome(searchText) ==
  LET trimmed == toLowerCase(trim(searchText))
  IN \/ trimmed = <<>>
     \/ trimmed \in WelcomeSubjectParts
     \/ trimmed \in WelcomePreviewParts
     \/ trimmed \in WelcomeBodyParts

\* the ids of the items of conversationList, in order
conversationList(byId, searchText) ==
  LET real == xmtpConversationList(byId, searchText)
      ids == [i \in DOMAIN real |-> real[i].id]
  IN IF matchesWelcome(searchText) THEN <<WELCOME_CONVERSATION_ID>> \o ids ELSE ids

\* an effect without the stillExists test
selectionEffectNoFallback(list, selected) ==
  IF list = <<>> THEN Null
  ELSE IF selected = Null THEN list[1]
  ELSE selected

\* the effect on [conversationList, selectedConversationId]
selectionEffect(list, selected) ==
  IF list = <<>> THEN Null
  ELSE IF selected = Null THEN list[1]
  ELSE IF \E i \in DOMAIN list : list[i] = selected THEN selected
  ELSE list[1]

VARIABLES
  conversationsById,        \* React state: the summaries, in key insertion order
  messagesByConversation,   \* React state: conversation id -> message sequence
  selectedConversationId,   \* React state
  search,                   \* React state: the search box text
  appended,                 \* history: conversation id -> ids passed to addMessages
  isWasmInitialized,        \* React state
  wasmError,                \* React state: Null or a message
  wasmInitStalled,          \* React state
  thirdwebClientIdStatus,   \* React state: missing, checking, valid or invalid
  activeWallet,             \* useActiveWallet(): TRUE when a wallet is connected
  xmtpClient,               \* React state: Null or "client"
  xmtpLoading,              \* React state
  xmtpError,                \* React state: Null or a message
  xmtpInitStalled,          \* React state
  initCalls,                \* running initializeXmtpClient calls, by the await they are at
  initEffectPending,        \* the effect on [initializeXmtpClient] has yet to run
  net,                      \* the network: the allowed Dms, the Dms whose consent state is
                            \* not allowed (pending) and the messages sent
  inboxDetails,             \* React state: the inbox ids whose address is cached
  subs,                     \* the stream subscriptions that are open
  starters,                 \* the startStreams calls that await a stream
  callbacks,                \* the stream handlers that await a lookup (live: isMounted
                            \* of their run; wasLive: isMounted when they were called)
  bulk,                     \* the loadConversations call of the session
  loads,                    \* conversations a loadMessagesForConversation call runs for
  compose,                  \* the handleComposeSend call
  reply,                    \* the handleSendReply call
  composeOpen,              \* React state: the compose form is shown
  composeTo,                \* React state: the text of the To field
  parsed,                   \* handleComposeSend: the value parseRecipient returned
  sendError,                \* React state of Thread: Null or a message
  emailInput,               \* the argument of an encodeXmtpEmailV1 call
  content,                  \* message.content, the argument of decodeXmtpEmail
  decoded,                  \* the value decodeXmtpEmail returned for content
  inboxDetailsRef,          \* inboxDetailsRef.current: the inbox ids it holds
  lookups,                  \* the resolveInboxAddress calls that await the network, each
                            \* with the inbox id its caller resolves next
  identityCalls             \* inbox id -> the resolveInboxAddress calls for it that called
                            \* Client.inboxStateFromInboxIds (made) or not (skipped)

storeVars == <<conversationsById, messagesByConversation, selectedConversationId, search,
               appended>>

startupVars == <<isWasmInitialized, wasmError, wasmInitStalled, thirdwebClientIdStatus,
                 activeWallet, xmtpClient, xmtpLoading, xmtpError, xmtpInitStalled,
                 initCalls, initEffectPending>>

syncVars == <<net, inboxDetails, subs, starters, callbacks, bulk, loads, compose, reply>>

formVars == <<composeOpen, composeTo, parsed, sendError>>

envelopeVars == <<emailInput, content, decoded>>

lookupVars == <<inboxDetailsRef, lookups, identityCalls>>

vars == <<storeVars, startupVars, syncVars, formVars, envelopeVars, lookupVars>>

\* no session: nothing is on the network and nothing is running
NoSession ==
  /\ net = [convs |-> {}, pending |-> {}, msgs |-> {}]
  /\ inboxDetails = {}
  /\ subs = {}
  /\ starters = {}
  /\ callbacks = {}
  /\ bulk = [pc |-> "done", convos |-> <<>>]
  /\ loads = {}
  /\ compose = [pc |-> "idle", dm |-> Undefined, sent |-> NoMsg, error |-> Null]
  /\ reply = [pc |-> "idle", conversation |-> Undefined, sent |-> NoMsg]

\* no parseRecipient call has been made
NoRecipient == [kind |-> "none", peer |-> UndefinedText, email |-> UndefinedText, error |-> Null]

\* the compose form is closed and the reply box has no error
FormClosed ==
  /\ composeOpen = FALSE
  /\ composeTo = <<>>
  /\ parsed = NoRecipient
  /\ sendError = Null

\* no encodeXmtpEmailV1 or decodeXmtpEmail call has been made
NoEmail == [subject |-> UndefinedText, body |-> UndefinedText,
            from |-> UndefinedText, to |-> UndefinedText]

NoContent == [type |-> "none", text |-> <<>>, number |-> 0, form |-> NoForm]

NotDecoded == [kind |-> "none", text |-> UndefinedText, subject |-> UndefinedText,
               body |-> UndefinedText, from |-> UndefinedText, to |-> UndefinedText,
               sentAt |-> NoTime]

NoEnvelope ==
  /\ emailInput = NoEmail
  /\ content = NoContent
  /\ decoded = NotDecoded

InboxIds == { InboxName(k) : k \in 1..NumConvs }

\* no resolveInboxAddress call is running and the ref holds the empty cache
NoLookups ==
  /\ inboxDetailsRef = {}
  /\ lookups = {}
  /\ identityCalls = [i \in InboxIds |-> [made |-> 0, skipped |-> 0]]

\* the sequencer as it stands once a client exists: nothing of it is running
StartupSettled ==
  /\ isWasmInitialized = TRUE
  /\ wasmError = Null
  /\ wasmInitStalled = FALSE
  /\ thirdwebClientIdStatus = "valid"
  /\ activeWallet = TRUE
  /\ xmtpClient = "client"
  /\ xmtpLoading = FALSE
  /\ xmtpError = Null
  /\ xmtpInitStalled = FALSE
  /\ initCalls = [signer |-> 0, create |-> 0]
  /\ initEffectPending = FALSE

EmptyMap == [c \in {} |-> <<>>]

\* ------------------------------------------------ SpecAppend: addMessages alone
InitAppend ==
  /\ conversationsById = <<>>
  /\ messagesByConversation = EmptyMap
  /\ selectedConversationId = WELCOME_CONVERSATION_ID
  /\ search = <<>>
  /\ appended = [c \in ConvIds |-> {}]
  /\ StartupSettled
  /\ NoSession
  /\ FormClosed
  /\ NoEnvelope
  /\ NoLookups

\* one call addMessages(conversationId, incoming), incoming a message or a batch
AppendBatch ==
  \E c \in ConvIds, batch \in SeqsUpTo(MsgIds, MaxBatch) :
    /\ messagesByConversation' = addMessages(messagesByConversation, c, batch)
    /\ appended' = [appended EXCEPT ![c] = @ \cup Range(batch)]
    /\ UNCHANGED <<formVars, envelopeVars, lookupVars, conversationsById, selectedConversationId, search, startupVars, syncVars>>

NextAppend == AppendBatch

SpecAppend == InitAppend /\ [][NextAppend]_vars

\* ---------------------------------- SpecProj: the projection and the selection
\* the characters typed into the search box
QueryChars == {" ", "W", "g", "z", "1"}

\* the summaries the callers of upsertConversationSummary pass for conversation k
PeerInfos(k) ==
  { [peerInboxId |-> Undefined, peerAddress |-> Undefined],
    [peerInboxId |-> InboxName(k), peerAddress |-> Undefined],
    [peerInboxId |-> InboxName(k), peerAddress |-> AddressName(k)] }

MsgsOf(id) == { m \in MsgIds : conversationIdOf(m) = id }

CallerSummaries(k) ==
  LET id == ConvName(k)
  IN { [key \in {"peerInboxId", "peerAddress"} |-> p[key]] : p \in PeerInfos(k) }
     \cup { [key \in {"lastMessage"} |-> m] : m \in MsgsOf(id) }
     \cup { [key \in SummaryKeys |-> IF key = "lastMessage" THEN m ELSE p[key]] :
              p \in PeerInfos(k), m \in MsgsOf(id) \cup {NoMsg} }

InitProj ==
  /\ conversationsById = <<>>
  /\ messagesByConversation = EmptyMap
  /\ search = <<>>
  /\ selectedConversationId = selectionEffect(conversationList(<<>>, <<>>), Null)
  /\ appended = [c \in ConvIds |-> {}]
  /\ StartupSettled
  /\ NoSession
  /\ FormClosed
  /\ NoEnvelope
  /\ NoLookups

\* onChange of the search box: setSearch(e.currentTarget.value)
SetSearch ==
  \E q \in SeqsUpTo(QueryChars, MaxQueryLen) :
    /\ search' = q
    /\ selectedConversationId' =
         selectionEffect(conversationList(conversationsById, q), selectedConversationId)
    /\ UNCHANGED <<formVars, envelopeVars, lookupVars, conversationsById, messagesByConversation, appended, startupVars, syncVars>>

\* onClick of a row of the list: setSelectedConversationId(summary.id)
SelectConversation ==
  \E i \in DOMAIN conversationList(conversationsById, search) :
    LET list == conversationList(conversationsById, search)
    IN /\ selectedConversationId' = selectionEffect(list, list[i])
       /\ UNCHANGED <<formVars, envelopeVars, lookupVars, conversationsById, messagesByConversation, search, appended,
                      startupVars, syncVars>>

\* setSelectedConversationId(dm.id) at the end of handleComposeSend
SelectComposed ==
  \E id \in conversationIds(conversationsById) :
    /\ selectedConversationId' =
         selectionEffect(conversationList(conversationsById, search), id)
    /\ UNCHANGED <<formVars, envelopeVars, lookupVars, conversationsById, messagesByConversation, search, appended,
                   startupVars, syncVars>>

\* a write of the store by one of the callers of upsertConversationSummary
StoreUpsert ==
  \E k \in 1..NumConvs : \E summary \in CallerSummaries(k) :
    LET byId == upsertConversationSummary(conversationsById, ConvName(k), summary)
    IN /\ conversationsById' = byId
       /\ selectedConversationId' =
            selectionEffect(conversationList(byId, search), selectedConversationId)
       /\ UNCHANGED <<formVars, envelopeVars, lookupVars, messagesByConversation, search, appended, startupVars, syncVars>>

NextProj == SetSearch \/ SelectConversation \/ SelectComposed \/ StoreUpsert

SpecProj == InitProj /\ [][NextProj]_vars

\* ------------------------------------------- SpecInit: the startup sequencer
\* thirdwebClient is null exactly when THIRDWEB_CLIENT_ID is empty, which is
\* when the status is (and stays) missing
thirdwebClient == thirdwebClientIdStatus # "missing"

InitStartup ==
  /\ conversationsById = <<>>
  /\ messagesByConversation = EmptyMap
  /\ search = <<>>
  /\ selectedConversationId = selectionEffect(conversationList(<<>>, <<>>), Null)
  /\ appended = [c \in ConvIds |-> {}]
  /\ isWasmInitialized = FALSE
  /\ wasmError = Null
  /\ wasmInitStalled = FALSE
  /\ thirdwebClientIdStatus \in {"checking", "missing"}
  /\ activeWallet \in BOOLEAN
  /\ xmtpClient = Null
  /\ xmtpLoading = FALSE
  /\ xmtpError = Null
  /\ xmtpInitStalled = FALSE
  /\ initCalls = [signer |-> 0, create |-> 0]
  /\ initEffectPending = FALSE
  /\ NoSession
  /\ FormClosed
  /\ NoEnvelope
  /\ NoLookups

\* validate(): the probe of the thirdweb client id answers
ValidateResolved ==
  /\ thirdwebClientIdStatus = "checking"
  /\ thirdwebClientIdStatus' \in {"valid", "invalid"}
  /\ UNCHANGED <<formVars, envelopeVars, lookupVars, storeVars, syncVars, isWasmInitialized, wasmError, wasmInitStalled, activeWallet,
                 xmtpClient, xmtpLoading, xmtpError, xmtpInitStalled, initCalls,
                 initEffectPending>>

wasmPending == ~isWasmInitialized /\ wasmError = Null

\* init(): the 10 s warnTimer fires while the WASM import is pending
WasmStallTimer ==
  /\ wasmPending
  /\ wasmInitStalled' = TRUE
  /\ UNCHANGED <<formVars, envelopeVars, lookupVars, storeVars, syncVars, isWasmInitialized, wasmError, thirdwebClientIdStatus,
                 activeWallet, xmtpClient, xmtpLoading, xmtpError, xmtpInitStalled,
                 initCalls, initEffectPending>>

\* init(): await wasmModule.default() resolves
WasmInitResolved ==
  /\ wasmPending
  /\ isWasmInitialized' = TRUE
  /\ initEffectPending' = TRUE
  /\ UNCHANGED <<formVars, envelopeVars, lookupVars, storeVars, syncVars, wasmError, wasmInitStalled, thirdwebClientIdStatus,
                 activeWallet, xmtpClient, xmtpLoading, xmtpError, xmtpInitStalled,
                 initCalls>>

\* init(): the import or the module initialiser throws
WasmInitFailed ==
  /\ wasmPending
  /\ wasmError' = "Unknown error"
  /\ UNCHANGED <<formVars, envelopeVars, lookupVars, storeVars, syncVars, isWasmInitialized, wasmInitStalled, thirdwebClientIdStatus,
                 activeWallet, xmtpClient, xmtpLoading, xmtpError, xmtpInitStalled,
                 initCalls, initEffectPending>>

\* the wallet provider connects or disconnects a wallet
WalletChanged ==
  /\ activeWallet' = ~activeWallet
  /\ initEffectPending' = TRUE
  /\ UNCHANGED <<formVars, envelopeVars, lookupVars, storeVars, syncVars, isWasmInitialized, wasmError, wasmInitStalled,
                 thirdwebClientIdStatus, xmtpClient, xmtpLoading, xmtpError,
                 xmtpInitStalled, initCalls>>

\* the early returns without the one on xmtpLoading
canInitializeWhileLoading ==
  /\ thirdwebClient
  /\ activeWallet
  /\ isWasmInitialized
  /\ xmtpClient = Null

\* the early returns of initializeXmtpClient
canInitialize ==
  /\ thirdwebClient
  /\ activeWallet
  /\ isWasmInitialized
  /\ xmtpClient = Null
  /\ ~xmtpLoading

\* initializeXmtpClient up to its first await (provider.getSigner())
initializeXmtpClient ==
  IF canInitialize
  THEN /\ xmtpInitStalled' = FALSE
       /\ xmtpLoading' = TRUE
       /\ xmtpError' = Null
       /\ initCalls' = [initCalls EXCEPT !.signer = @ + 1]
  ELSE UNCHANGED <<xmtpInitStalled, xmtpLoading, xmtpError, initCalls>>

\* useEffect(() => { void initializeXmtpClient(); }, [initializeXmtpClient]);
\* a call that starts changes xmtpLoading, hence the callback, hence re-runs it
InitEffect ==
  /\ initEffectPending
  /\ initializeXmtpClient
  /\ initEffectPending' = canInitialize
  /\ UNCHANGED <<formVars, envelopeVars, lookupVars, storeVars, syncVars, isWasmInitialized, wasmError, wasmInitStalled,
                 thirdwebClientIdStatus, activeWallet, xmtpClient>>

\* onClick of "Try again": rendered when there is no client and xmtpError is
\* set, disabled={!activeWallet || !isWasmInitialized || xmtpLoading}
TryAgain ==
  /\ wasmError = Null /\ isWasmInitialized /\ thirdwebClient /\ activeWallet
  /\ xmtpClient = Null /\ xmtpError # Null
  /\ ~xmtpLoading
  /\ initializeXmtpClient
  /\ initEffectPending' = (initEffectPending \/ canInitialize)
  /\ UNCHANGED <<formVars, envelopeVars, lookupVars, storeVars, syncVars, isWasmInitialized, wasmError, wasmInitStalled,
                 thirdwebClientIdStatus, activeWallet, xmtpClient>>

\* await provider.getSigner() / signer.getAddress() resolve; warnTimer is armed
SignerResolved ==
  /\ initCalls.signer > 0
  /\ initCalls' = [signer |-> initCalls.signer - 1, create |-> initCalls.create + 1]
  /\ UNCHANGED <<formVars, envelopeVars, lookupVars, storeVars, syncVars, isWasmInitialized, wasmError, wasmInitStalled,
                 thirdwebClientIdStatus, activeWallet, xmtpClient, xmtpLoading, xmtpError,
                 xmtpInitStalled, initEffectPending>>

\* an initializeXmtpClient without its catch: the rejection escapes, nothing
\* is stored and only the finally runs
initFailedUncaught(phase) ==
  /\ initCalls[phase] > 0
  /\ initCalls' = [initCalls EXCEPT ![phase] = @ - 1]
  /\ xmtpLoading' = FALSE
  /\ initEffectPending' = (initEffectPending \/ xmtpLoading)
  /\ UNCHANGED <<formVars, envelopeVars, lookupVars, storeVars, syncVars, isWasmInitialized, wasmError, wasmInitStalled,
                 thirdwebClientIdStatus, activeWallet, xmtpClient, xmtpInitStalled, xmtpError>>

\* catch and finally of initializeXmtpClient
initFailed(phase) ==
  /\ initCalls[phase] > 0
  /\ initCalls' = [initCalls EXCEPT ![phase] = @ - 1]
  /\ xmtpError' = "Failed to initialize XMTP"
  /\ xmtpLoading' = FALSE
  /\ initEffectPending' = (initEffectPending \/ xmtpLoading)
  /\ UNCHANGED <<formVars, envelopeVars, lookupVars, storeVars, syncVars, isWasmInitialized, wasmError, wasmInitStalled,
                 thirdwebClientIdStatus, activeWallet, xmtpClient, xmtpInitStalled>>

\* the wallet refuses the signer
SignerFailed == initFailed("signer")

\* Client.create rejects
CreateFailed == initFailed("create")

\* Client.create resolves: setXmtpClient(client); the loadConversations of this
\* closure returns at once (its xmtpClient is null); finally setXmtpLoading(false)
CreateResolved ==
  /\ initCalls.create > 0
  /\ initCalls' = [initCalls EXCEPT !.create = @ - 1]
  /\ xmtpClient' = "client"
  /\ xmtpLoading' = FALSE
  /\ initEffectPending' = TRUE
  /\ UNCHANGED <<formVars, envelopeVars, lookupVars, storeVars, syncVars, isWasmInitialized, wasmError, wasmInitStalled,
                 thirdwebClientIdStatus, activeWallet, xmtpError, xmtpInitStalled>>

\* a warnTimer that gives the pending call up
WarnTimerAborts ==
  /\ initCalls.create > 0
  /\ xmtpInitStalled' = TRUE
  /\ initCalls' = [initCalls EXCEPT !.create = @ - 1]
  /\ xmtpLoading' = FALSE
  /\ UNCHANGED <<formVars, envelopeVars, lookupVars, storeVars, syncVars, isWasmInitialized, wasmError, wasmInitStalled,
                 thirdwebClientIdStatus, activeWallet, xmtpClient, xmtpError,
                 initEffectPending>>

\* the warnTimer of a call that waits for Client.create fires
WarnTimerFired ==
  /\ initCalls.create > 0
  /\ xmtpInitStalled' = TRUE
  /\ UNCHANGED <<formVars, envelopeVars, lookupVars, storeVars, syncVars, isWasmInitialized, wasmError, wasmInitStalled,
                 thirdwebClientIdStatus, activeWallet, xmtpClient, xmtpLoading, xmtpError,
                 initCalls, initEffectPending>>

\* the timer of the effect on [xmtpLoading] fires
LoadingTimerFired ==
  /\ xmtpLoading
  /\ xmtpInitStalled' = TRUE
  /\ UNCHANGED <<formVars, envelopeVars, lookupVars, storeVars, syncVars, isWasmInitialized, wasmError, wasmInitStalled,
                 thirdwebClientIdStatus, activeWallet, xmtpClient, xmtpLoading, xmtpError,
                 initCalls, initEffectPending>>

NextStartup ==
  \/ ValidateResolved
  \/ WasmStallTimer
  \/ WasmInitResolved
  \/ WasmInitFailed
  \/ WalletChanged
  \/ InitEffect
  \/ TryAgain
  \/ SignerResolved
  \/ SignerFailed
  \/ CreateFailed
  \/ CreateResolved
  \/ WarnTimerFired
  \/ LoadingTimerFired

SpecStartup == InitStartup /\ [][NextStartup]_vars

\* ------------------------------------- the store in a session with the network
\* the allowed Dms and the messages the network holds when the client is created
InitialNetworks ==
  { [convs |-> {ConvName(1)}, pending |-> {}, msgs |-> {1}] }

\* the next message of a conversation: the unsent one with the smallest id
canSend(c) == Cardinality(net.msgs) < MaxSent /\ MsgsOf(c) \ net.msgs # {}

nextMessage(c) ==
  CHOOSE m \in MsgsOf(c) \ net.msgs : \A o \in MsgsOf(c) \ net.msgs : m <= o

\* conversation.messages({ direction: SortDirection.Ascending })
RECURSIVE ascending(_)
ascending(S) ==
  IF S = {} THEN <<>>
  ELSE LET m == CHOOSE x \in S : \A y \in S : sentAtNs(x) < sentAtNs(y) \/ (sentAtNs(x) = sentAtNs(y) /\ x <= y)
       IN <<m>> \o ascending(S \ {m})

messagesOnNetwork(c, sent) == ascending({ m \in sent : conversationIdOf(m) = c })

\* messages.at(-1), conversation.lastMessage()
lastOf(s) == IF s = <<>> THEN NoMsg ELSE s[Len(s)]

IndexOfConv(id) == CHOOSE k \in 1..NumConvs : ConvName(k) = id

\* loadConversationPeers with resolveInboxAddress: peerInboxId() throws (both
\* undefined); the address is cached; Client.inboxStateFromInboxIds answers
\* (the address is cached from now on) or throws (address undefined)
PeerLookups(id, cache) ==
  LET inbox == InboxName(IndexOfConv(id))
      address == AddressName(IndexOfConv(id))
  IN { [peerInboxId |-> Undefined, peerAddress |-> Undefined, cache |-> cache] }
     \cup { [peerInboxId |-> inbox, peerAddress |-> address, cache |-> cache \cup {inbox}] }
     \cup (IF inbox \in cache THEN {}
           ELSE { [peerInboxId |-> inbox, peerAddress |-> Undefined, cache |-> cache] })

\* the cleanup of the stream effect and the next run of the effect, for the
\* store value byId: isMounted of the old run is false from now on, the streams
\* the two refs hold are returned, and a new startStreams awaits streamDms.
\* Of the startStreams calls that outlive their run at most MaxStale are
\* followed (counting the streams such calls have left open); the stream call
\* of any further one is taken to reject.
cleanupSubs(old) == { [s EXCEPT !.live = FALSE] : s \in { t \in old : ~t.inRef } }

cleanupStarters(old, openSubs) ==
  LET stale == { s \in old : ~s.live }
      left == Cardinality(stale) + Cardinality({ s \in cleanupSubs(openSubs) : TRUE })
  IN IF left < MaxStale
     THEN { [s EXCEPT !.live = FALSE] : s \in old }
     ELSE stale

cleanupCallbacks(old) == { [c EXCEPT !.live = FALSE] : c \in old }

startStreams(byId) == [pc |-> "dms", live |-> TRUE, known |-> conversationIds(byId)]

\* the effect on [loadMessagesForConversation, messagesByConversation,
\* selectedConversation]: the conversations it starts a message load for
messageLoadEffect(byId, msgs, selected, changed) ==
  IF /\ changed
     /\ hasConversation(byId, selected)
     /\ (selected \notin DOMAIN msgs \/ msgs[selected] = <<>>)
  THEN {selected}
  ELSE {}

\* a step that sets the store to byId (written when wrote is true) and the
\* messages to msgs (written when appendedTo is not empty), and calls
\* setSelectedConversationId(picked) when picked is not Undefined: the state
\* after the render and its effects.  subs1, starters1 and callbacks1 are the
\* streams as the step itself leaves them.
Render(byId, wrote, msgs, wroteMsgs, picked, subs1, starters1, callbacks1, loads1) ==
  LET selected == selectionEffect(conversationList(byId, search),
                                  IF picked = Undefined THEN selectedConversationId ELSE picked)
      recordChanged ==
        hasConversation(byId, selected)
        /\ (~hasConversation(conversationsById, selected)
            \/ getConversation(byId, selected) # getConversation(conversationsById, selected))
      changed == wroteMsgs \/ selected # selectedConversationId \/ recordChanged
  IN /\ conversationsById' = byId
     /\ messagesByConversation' = msgs
     /\ selectedConversationId' = selected
     /\ loads' = loads1 \cup messageLoadEffect(byId, msgs, selected, changed)
     /\ IF wrote
        THEN /\ subs' = cleanupSubs(subs1)
             /\ starters' = cleanupStarters(starters1, subs1) \cup {startStreams(byId)}
             /\ callbacks' = cleanupCallbacks(callbacks1)
        ELSE /\ subs' = subs1
             /\ starters' = starters1
             /\ callbacks' = callbacks1

\* a new message on the network reaches every open message subscription
enqueueMessage(old, m) ==
  { IF s.kind = "msgs" THEN [s EXCEPT !.queue = @ \cup {m}] ELSE s : s \in old }

\* a new Dm on the network reaches every open conversation subscription
enqueueDm(old, id) ==
  { IF s.kind = "dms" THEN [s EXCEPT !.queue = @ \cup {id}] ELSE s : s \in old }

\* conversationStreamRef.current = ... / messageStreamRef.current = ...: the
\* ref holds the new stream and no longer the one it held
assignRef(old, sub) ==
  { IF s.kind = sub.kind THEN [s EXCEPT !.inRef = FALSE] ELSE s : s \in old } \cup {sub}

SessionStarted ==
  /\ conversationsById = <<>>
  /\ messagesByConversation = EmptyMap
  /\ search = <<>>
  /\ selectedConversationId = selectionEffect(conversationList(<<>>, <<>>), Null)
  /\ appended = [c \in ConvIds |-> {}]
  /\ StartupSettled
  /\ net \in InitialNetworks
  /\ inboxDetails = {}
  /\ subs = {}
  /\ starters = {startStreams(<<>>)}
  /\ callbacks = {}
  /\ bulk = [pc |-> "list", convos |-> <<>>]
  /\ loads = {}
  /\ compose = [pc |-> "idle", dm |-> Undefined, sent |-> NoMsg, error |-> Null]
  /\ reply = [pc |-> "idle", conversation |-> Undefined, sent |-> NoMsg]

InitSession == SessionStarted /\ FormClosed /\ NoEnvelope /\ NoLookups

\* ---- loadConversations
\* a loadConversations whose updater starts from an empty object instead of
\* { ...prev }
replaceSummaryAlone(prev, summary) == <<summary>>

\* next[summary.conversation.id] = summary: the record is replaced as a whole
replaceSummary(prev, summary) ==
  IF hasConversation(prev, summary.id)
  THEN [i \in DOMAIN prev |-> IF prev[i].id = summary.id THEN summary ELSE prev[i]]
  ELSE Append(prev, summary)

RECURSIVE replaceAll(_, _)
replaceAll(prev, hydrated) ==
  IF hydrated = <<>> THEN prev
  ELSE replaceAll(replaceSummary(prev, Head(hydrated)), Tail(hydrated))

\* the ids of a set of conversations in the order conversations.list gives them
RECURSIVE listed(_)
listed(S) ==
  IF S = {} THEN <<>>
  ELSE LET id == CHOOSE x \in S : \A y \in S : IndexOfConv(x) <= IndexOfConv(y)
       IN <<id>> \o listed(S \ {id})

\* await xmtpClient.conversations.list(...) resolves with the allowed Dms
BulkListed ==
  /\ bulk.pc = "list"
  /\ bulk' = [pc |-> "hydrate", convos |-> listed(net.convs)]
  /\ UNCHANGED <<formVars, envelopeVars, lookupVars, storeVars, startupVars, net, inboxDetails, subs, starters, callbacks,
                 loads, compose, reply>>

\* conversations.list rejects: the catch of loadConversations
BulkListFailed ==
  /\ bulk.pc = "list"
  /\ bulk' = [pc |-> "done", convos |-> <<>>]
  /\ UNCHANGED <<formVars, envelopeVars, lookupVars, storeVars, startupVars, net, inboxDetails, subs, starters, callbacks,
                 loads, compose, reply>>

\* a loadConversations that leaves the resolved address out of the summary
hydratedSummaryNoAddress(id, peers, lastMessage) ==
  [id |-> id,
   peerInboxId |-> peers.peerInboxId,
   peerAddress |-> Undefined,
   lastMessage |-> lastMessage]

\* the summary loadConversations builds for a conversation:
\* { kind: 'xmtp', id, conversation, peerInboxId, peerAddress, lastMessage }
hydratedSummary(id, peers, lastMessage) ==
  [id |-> id,
   peerInboxId |-> peers.peerInboxId,
   peerAddress |-> peers.peerAddress,
   lastMessage |-> lastMessage]

\* await conversation.lastMessage(): the newest message, undefined when the
\* call rejects
lastMessages(id, sent) == {lastOf(messagesOnNetwork(id, sent)), NoMsg}

\* Promise.all(convos.map(...)) resolves: every conversation with the result
\* of its peer lookup and of its lastMessage() (undefined when that rejects);
\* then setConversationsById
BulkHydrated ==
  /\ bulk.pc = "hydrate"
  /\ \E peers \in [DOMAIN bulk.convos -> UNION { PeerLookups(id, inboxDetails) : id \in ConvIds }],
        gotLast \in [DOMAIN bulk.convos -> BOOLEAN] :
       /\ \A i \in DOMAIN bulk.convos : peers[i] \in PeerLookups(bulk.convos[i], inboxDetails)
       /\ LET hydrated ==
                [i \in DOMAIN bulk.convos |->
                   hydratedSummary(bulk.convos[i], peers[i],
                     IF gotLast[i]
                     THEN lastOf(messagesOnNetwork(bulk.convos[i], net.msgs))
                     ELSE NoMsg)]
          IN /\ inboxDetails' = inboxDetails \cup UNION { peers[i].cache : i \in DOMAIN bulk.convos }
             /\ Render(replaceAll(conversationsById, hydrated), TRUE,
                       messagesByConversation, FALSE, Undefined,
                       subs, starters, callbacks, loads)
  /\ bulk' = [pc |-> "done", convos |-> <<>>]
  /\ UNCHANGED <<formVars, envelopeVars, lookupVars, search, appended, startupVars, net, compose, reply>>

\* ---- startStreams
\* await streamDms resolves: conversationStreamRef.current = convoStream
StreamDmsResolved ==
  \E s \in starters :
    /\ s.pc = "dms"
    /\ subs' = assignRef(subs, [kind |-> "dms", live |-> s.live, known |-> {},
                                inRef |-> TRUE, queue |-> {}])
    /\ starters' = (starters \ {s}) \cup {[s EXCEPT !.pc = "msgs"]}
    /\ UNCHANGED <<formVars, envelopeVars, lookupVars, storeVars, startupVars, net, inboxDetails, callbacks, bulk, loads,
                   compose, reply>>

\* await streamAllMessages resolves: messageStreamRef.current = messageStream
StreamAllMessagesResolved ==
  \E s \in starters :
    /\ s.pc = "msgs"
    /\ subs' = assignRef(subs, [kind |-> "msgs", live |-> s.live, known |-> s.known,
                                inRef |-> TRUE, queue |-> {}])
    /\ starters' = starters \ {s}
    /\ UNCHANGED <<formVars, envelopeVars, lookupVars, storeVars, startupVars, net, inboxDetails, callbacks, bulk, loads,
                   compose, reply>>

\* streamDms or streamAllMessages rejects: the catch of startStreams
StreamStartFailed ==
  \E s \in starters :
    /\ starters' = starters \ {s}
    /\ UNCHANGED <<formVars, envelopeVars, lookupVars, storeVars, startupVars, net, inboxDetails, subs, callbacks, bulk,
                   loads, compose, reply>>

\* onValue of streamDms: void loadConversationPeers(dm).then(...)
ConversationStreamOnValue ==
  \E s \in subs : \E dm \in s.queue :
    /\ s.kind = "dms"
    /\ subs' = (subs \ {s}) \cup {[s EXCEPT !.queue = @ \ {dm}]}
    /\ callbacks' = callbacks \cup
         {[kind |-> "dm", live |-> s.live, wasLive |-> s.live, conversation |-> dm,
           message |-> NoMsg]}
    /\ UNCHANGED <<formVars, envelopeVars, lookupVars, storeVars, startupVars, net, inboxDetails, starters, bulk, loads,
                   compose, reply>>

\* the summary a handler of a stream passes to upsertConversationSummary:
\* { conversation: dm, peerAddress, peerInboxId } for a Dm, and the same with
\* lastMessage: message for a message of a fetched Dm
streamSummary(cb, peers) ==
  IF cb.kind = "dm"
  THEN [key \in {"peerInboxId", "peerAddress"} |-> peers[key]]
  ELSE [key \in SummaryKeys |-> IF key = "lastMessage" THEN cb.message ELSE peers[key]]

\* the then of loadConversationPeers(dm): if (!isMounted) return; upsert
ConversationPeersResolved ==
  \E cb \in callbacks : \E peers \in PeerLookups(cb.conversation, inboxDetails) :
    /\ cb.kind = "dm"
    /\ inboxDetails' = peers.cache
    /\ IF cb.live
       THEN Render(upsertConversationSummary(conversationsById, cb.conversation,
                     streamSummary(cb, peers)), TRUE,
                   messagesByConversation, FALSE, Undefined,
                   subs, starters, callbacks \ {cb}, loads)
       ELSE /\ callbacks' = callbacks \ {cb}
            /\ UNCHANGED <<formVars, envelopeVars, lookupVars, conversationsById, messagesByConversation,
                           selectedConversationId, subs, starters, loads>>
    /\ UNCHANGED <<formVars, envelopeVars, lookupVars, search, appended, startupVars, net, bulk, compose, reply>>

\* onValue of streamAllMessages up to its first await: a message of a
\* conversation the closure's conversationsById holds is upserted as
\* lastMessage and appended; for another one getConversationById is awaited
MessageStreamOnValue ==
  \E s \in subs : \E message \in s.queue :
    /\ s.kind = "msgs"
    /\ LET conversationId == conversationIdOf(message)
           subs1 == (subs \ {s}) \cup {[s EXCEPT !.queue = @ \ {message}]}
       IN IF conversationId \in s.known
          THEN Render(upsertConversationSummary(conversationsById, conversationId,
                        [key \in {"lastMessage"} |-> message]), TRUE,
                      addMessages(messagesByConversation, conversationId, <<message>>), TRUE,
                      Undefined, subs1, starters, callbacks, loads)
          ELSE /\ subs' = subs1
               /\ callbacks' = callbacks \cup
                    {[kind |-> "message", live |-> s.live, wasLive |-> s.live,
                      conversation |-> conversationId, message |-> message]}
               /\ UNCHANGED <<formVars, envelopeVars, lookupVars, conversationsById, messagesByConversation,
                              selectedConversationId, starters, loads>>
    /\ UNCHANGED <<formVars, envelopeVars, lookupVars, search, appended, startupVars, net, inboxDetails, bulk, compose, reply>>

\* getConversationById returned a Dm and loadConversationPeers resolved:
\* upsert with the message as lastMessage, then addMessages
MessageFetchResolved ==
  \E cb \in callbacks : \E peers \in PeerLookups(cb.conversation, inboxDetails) :
    /\ cb.kind = "message"
    /\ inboxDetails' = peers.cache
    /\ Render(upsertConversationSummary(conversationsById, cb.conversation,
                streamSummary(cb, peers)), TRUE,
              addMessages(messagesByConversation, cb.conversation, <<cb.message>>), TRUE,
              Undefined, subs, starters, callbacks \ {cb}, loads)
    /\ UNCHANGED <<formVars, envelopeVars, lookupVars, search, appended, startupVars, net, bulk, compose, reply>>

\* getConversationById returned nothing (or no Dm): addMessages alone
MessageFetchEmpty ==
  \E cb \in callbacks :
    /\ cb.kind = "message"
    /\ Render(conversationsById, FALSE,
              addMessages(messagesByConversation, cb.conversation, <<cb.message>>), TRUE,
              Undefined, subs, starters, callbacks \ {cb}, loads)
    /\ UNCHANGED <<formVars, envelopeVars, lookupVars, search, appended, startupVars, net, inboxDetails, bulk, compose, reply>>

\* getConversationById rejects: the handler ends with the rejection
MessageFetchFailed ==
  \E cb \in callbacks :
    /\ cb.kind = "message"
    /\ callbacks' = callbacks \ {cb}
    /\ UNCHANGED <<formVars, envelopeVars, lookupVars, storeVars, startupVars, net, inboxDetails, subs, starters, bulk, loads,
                   compose, reply>>

\* ---- loadMessagesForConversation
\* addMessages(conversation.id, messages); upsert of the last one, if any
loadedMessages(byId, msgs, id, messages) ==
  [byId |-> IF messages = <<>> THEN byId
            ELSE upsertConversationSummary(byId, id,
                   [key \in {"lastMessage"} |-> lastOf(messages)]),
   wrote |-> messages # <<>>,
   msgs |-> addMessages(msgs, id, messages)]

\* conversation.messages(...) resolves, in a call made by the message-load effect
LoadMessagesResolved ==
  \E id \in loads :
    LET got == loadedMessages(conversationsById, messagesByConversation, id,
                              messagesOnNetwork(id, net.msgs))
    IN /\ Render(got.byId, got.wrote, got.msgs, TRUE, Undefined,
                 subs, starters, callbacks, loads \ {id})
       /\ UNCHANGED <<formVars, envelopeVars, lookupVars, search, appended, startupVars, net, inboxDetails, bulk, compose,
                      reply>>

\* conversation.messages(...) rejects: the catch of loadMessagesForConversation
LoadMessagesFailed ==
  \E id \in loads :
    /\ loads' = loads \ {id}
    /\ UNCHANGED <<formVars, envelopeVars, lookupVars, storeVars, startupVars, net, inboxDetails, subs, starters, callbacks,
                   bulk, compose, reply>>

\* onClick of a row of the list, in a session
SelectConversationRow ==
  \E i \in DOMAIN conversationList(conversationsById, search) :
    /\ conversationList(conversationsById, search)[i] # selectedConversationId
    /\ Render(conversationsById, FALSE, messagesByConversation, FALSE,
              conversationList(conversationsById, search)[i],
              subs, starters, callbacks, loads)
    /\ UNCHANGED <<formVars, envelopeVars, lookupVars, search, appended, startupVars, net, inboxDetails, bulk, compose, reply>>

\* ---- the compose form
\* onClick of "Compose": setComposeOpen(true)
OpenCompose ==
  /\ ~composeOpen
  /\ composeOpen' = TRUE
  /\ UNCHANGED <<composeTo, parsed, sendError, envelopeVars, lookupVars, storeVars,
                 startupVars, syncVars>>

\* onClick of "Close": setComposeOpen(false); setComposeError(null)
CloseCompose ==
  /\ composeOpen
  /\ composeOpen' = FALSE
  /\ compose' = [compose EXCEPT !.error = Null]
  /\ UNCHANGED <<composeTo, parsed, sendError, envelopeVars, lookupVars, storeVars,
                 startupVars, net, inboxDetails, subs, starters, callbacks, bulk, loads,
                 reply>>

\* the texts typed into the To field of a session: the address of a peer, a
\* name, each alone or with a domain, and a domain alone
ComposeTexts ==
  LET peer == Chars(AddressName(1))
      name == <<"a">>
      other == <<"@", "b", ".", "c">>
  IN { peer, name, peer \o <<AtSign>> \o XmtpDomain, peer \o other, <<" ">> \o other }

\* onChange of the To field: setComposeTo(e.currentTarget.value)
SetComposeTo ==
  \E text \in ComposeTexts :
    /\ composeOpen
    /\ text # composeTo
    /\ composeTo' = text
    /\ UNCHANGED <<composeOpen, parsed, sendError, envelopeVars, lookupVars, storeVars,
                   startupVars, syncVars>>

\* ---- handleComposeSend
composeIsSending == compose.pc # "idle"

SmtpError == "SMTP delivery is not wired up yet. Use an @xmtp.mx address or an onchain address/ENS name."

\* isHexAddress(peer): the addresses of the model are those of the peers
isHexAddress(peer) == \E k \in 1..NumConvs : peer = Chars(AddressName(k))

\* resolvePeerAddress(peer) and newDmWithIdentifier: the Dm a recipient can
\* lead to: the Dm with that address, or for a name the Dm with the address
\* the name resolves to
dmsOfPeer(peer) ==
  IF isHexAddress(peer)
  THEN { ConvName(k) : k \in { n \in 1..NumConvs : peer = Chars(AddressName(n)) } }
  ELSE ConvIds

\* a handleComposeSend that goes on with a recipient of any kind
composeOutcomeUnchecked(recipient) ==
  { [pc |-> "newDm", dm |-> dm, sent |-> NoMsg, error |-> Null] : dm \in { d \in ConvIds : canSend(d) } }

\* onClick of "Send" (disabled={composeIsSending || !composeTo.trim()}), up to
\* the first await: the recipient is invalid or of another domain and the
\* handler ends with composeError set, or resolvePeerAddress and
\* newDmWithIdentifier are awaited
composeOutcome(recipient) ==
  IF recipient.kind = "invalid"
  THEN { [pc |-> "idle", dm |-> Undefined, sent |-> NoMsg, error |-> recipient.error] }
  ELSE IF recipient.kind = "smtp"
  THEN { [pc |-> "idle", dm |-> Undefined, sent |-> NoMsg, error |-> SmtpError] }
  ELSE { [pc |-> "newDm", dm |-> dm, sent |-> NoMsg, error |-> Null] :
           dm \in { d \in dmsOfPeer(recipient.peer) : canSend(d) } }

ComposeStart ==
  /\ xmtpClient # Null
  /\ composeOpen
  /\ ~composeIsSending
  /\ trim(composeTo) # <<>>
  /\ parsed' = parseRecipient(composeTo)
  /\ compose' \in composeOutcome(parseRecipient(composeTo))
  /\ UNCHANGED <<composeOpen, composeTo, sendError, envelopeVars, lookupVars, storeVars,
                 startupVars, net, inboxDetails, subs, starters, callbacks, bulk, loads,
                 reply>>

\* newDmWithIdentifier resolves with the Dm of the peer, new or not
ComposeDmCreated ==
  /\ compose.pc = "newDm"
  /\ net' = [net EXCEPT !.convs = @ \cup {compose.dm}, !.pending = @ \ {compose.dm}]
  /\ subs' = IF compose.dm \in net.convs THEN subs ELSE enqueueDm(subs, compose.dm)
  /\ compose' = [compose EXCEPT !.pc = "send"]
  /\ UNCHANGED <<formVars, envelopeVars, lookupVars, storeVars, startupVars, inboxDetails, starters, callbacks, bulk, loads,
                 reply>>

\* resolvePeerAddress, newDmWithIdentifier or dm.send rejects: the catch
ComposeFailed ==
  /\ compose.pc \in {"newDm", "send"}
  /\ compose' = [pc |-> "idle", dm |-> Undefined, sent |-> NoMsg, error |-> "Failed to send."]
  /\ UNCHANGED <<formVars, envelopeVars, lookupVars, storeVars, startupVars, net, inboxDetails, subs, starters, callbacks,
                 bulk, loads, reply>>

\* await dm.send(payload) resolves: the message is on the network
ComposeSent ==
  /\ compose.pc = "send"
  /\ canSend(compose.dm)
  /\ LET m == nextMessage(compose.dm)
     IN /\ net' = [net EXCEPT !.msgs = @ \cup {m}]
        /\ subs' = enqueueMessage(subs, m)
        /\ compose' = [compose EXCEPT !.pc = "peers", !.sent = m]
  /\ UNCHANGED <<formVars, envelopeVars, lookupVars, storeVars, startupVars, inboxDetails, starters, callbacks, bulk, loads,
                 reply>>

\* await loadConversationPeers(dm) resolves:
\* upsertConversationSummary({ conversation: dm, ..., lastMessage: undefined })
ComposePeersResolved ==
  /\ compose.pc = "peers"
  /\ \E peers \in PeerLookups(compose.dm, inboxDetails) :
       /\ inboxDetails' = peers.cache
       /\ Render(upsertConversationSummary(conversationsById, compose.dm,
                   [key \in SummaryKeys |->
                      IF key = "lastMessage" THEN NoMsg ELSE peers[key]]),
                 TRUE, messagesByConversation, FALSE, Undefined,
                 subs, starters, callbacks, loads)
  /\ compose' = [compose EXCEPT !.pc = "reload"]
  /\ UNCHANGED <<formVars, envelopeVars, lookupVars, search, appended, startupVars, net, bulk, reply>>

\* a handleComposeSend in which a failed load of the messages reaches the catch
composeDoneRethrown(loaded) ==
  IF loaded
  THEN [compose |-> [pc |-> "idle", dm |-> Undefined, sent |-> NoMsg, error |-> Null],
        composeOpen |-> FALSE, composeTo |-> <<>>]
  ELSE [compose |-> [pc |-> "idle", dm |-> Undefined, sent |-> NoMsg, error |-> "Failed to send."],
        composeOpen |-> composeOpen, composeTo |-> composeTo]

\* handleComposeSend after await loadMessagesForConversation(dm), which has
\* caught a failure of its load: setComposeOpen(false), setComposeTo('') and
\* in the finally setComposeIsSending(false)
composeDone(loaded) ==
  [compose |-> [pc |-> "idle", dm |-> Undefined, sent |-> NoMsg, error |-> Null],
   composeOpen |-> FALSE, composeTo |-> <<>>]

\* await loadMessagesForConversation(dm) has loaded the messages;
\* setSelectedConversationId(dm.id) and the form is closed
ComposeReloadResolved ==
  /\ compose.pc = "reload"
  /\ LET got == loadedMessages(conversationsById, messagesByConversation, compose.dm,
                               messagesOnNetwork(compose.dm, net.msgs))
     IN Render(got.byId, got.wrote, got.msgs, TRUE, compose.dm,
               subs, starters, callbacks, loads)
  /\ compose' = composeDone(TRUE).compose
  /\ composeOpen' = composeDone(TRUE).composeOpen
  /\ composeTo' = composeDone(TRUE).composeTo
  /\ UNCHANGED <<parsed, sendError, envelopeVars, lookupVars, search, appended, startupVars, net, inboxDetails, bulk, reply>>

\* the load inside loadMessagesForConversation(dm) rejects and is caught there;
\* setSelectedConversationId(dm.id) and the form is closed
ComposeReloadFailed ==
  /\ compose.pc = "reload"
  /\ Render(conversationsById, FALSE, messagesByConversation, FALSE, compose.dm,
            subs, starters, callbacks, loads)
  /\ compose' = composeDone(FALSE).compose
  /\ composeOpen' = composeDone(FALSE).composeOpen
  /\ composeTo' = composeDone(FALSE).composeTo
  /\ UNCHANGED <<parsed, sendError, envelopeVars, lookupVars, search, appended, startupVars, net, inboxDetails, bulk, reply>>

\* ---- handleSendReply
\* the reply form of the selected conversation is sent: setSendError(null) in
\* Thread, then handleSendReply awaits the send
ReplyStart ==
  /\ reply.pc = "idle"
  /\ hasConversation(conversationsById, selectedConversationId)
  /\ canSend(selectedConversationId)
  /\ reply' = [pc |-> "send", conversation |-> selectedConversationId, sent |-> NoMsg]
  /\ sendError' = Null
  /\ UNCHANGED <<composeOpen, composeTo, parsed, envelopeVars, lookupVars, storeVars, startupVars, net, inboxDetails, subs, starters, callbacks,
                 bulk, loads, compose>>

\* await selectedConversation.conversation.send(...) resolves; the handler ends
ReplySent ==
  /\ reply.pc = "send"
  /\ canSend(reply.conversation)
  /\ LET m == nextMessage(reply.conversation)
     IN /\ net' = [net EXCEPT !.msgs = @ \cup {m}]
        /\ subs' = enqueueMessage(subs, m)
        /\ reply' = [pc |-> "idle", conversation |-> Undefined, sent |-> NoMsg]
  /\ UNCHANGED <<formVars, envelopeVars, lookupVars, storeVars, startupVars, inboxDetails, starters, callbacks, bulk, loads,
                 compose>>

\* send rejects: handleSendReply rejects and Thread sets sendError
ReplyFailed ==
  /\ reply.pc = "send"
  /\ reply' = [pc |-> "idle", conversation |-> Undefined, sent |-> NoMsg]
  /\ sendError' = "Failed to send."
  /\ UNCHANGED <<composeOpen, composeTo, parsed, envelopeVars, lookupVars, storeVars, startupVars, net, inboxDetails, subs, starters, callbacks,
                 bulk, loads, compose>>

\* the peer of a Dm sends a message
PeerSends ==
  \E c \in net.convs :
    /\ canSend(c)
    /\ net' = [net EXCEPT !.msgs = @ \cup {nextMessage(c)}]
    /\ subs' = enqueueMessage(subs, nextMessage(c))
    /\ UNCHANGED <<formVars, envelopeVars, lookupVars, storeVars, startupVars, inboxDetails, starters, callbacks, bulk, loads,
                   compose, reply>>

\* a Dm with a peer appears on the network
PeerCreatesDm ==
  \E c \in ConvIds \ (net.convs \cup net.pending) :
    /\ net' = [net EXCEPT !.convs = @ \cup {c}]
    /\ subs' = enqueueDm(subs, c)
    /\ UNCHANGED <<formVars, envelopeVars, lookupVars, storeVars, startupVars, inboxDetails, starters, callbacks, bulk, loads,
                   compose, reply>>

\* someone the user has not allowed creates a Dm with the user: its consent
\* state is not allowed, so conversations.list and streamAllMessages (both
\* called with consentStates: [ConsentState.Allowed]) leave it out, and
\* streamDms, which is called with onValue only, reports it
StrangerCreatesDm ==
  \E c \in ConvIds \ (net.convs \cup net.pending) :
    /\ net' = [net EXCEPT !.pending = @ \cup {c}]
    /\ subs' = enqueueDm(subs, c)
    /\ UNCHANGED <<formVars, envelopeVars, lookupVars, storeVars, startupVars, inboxDetails, starters, callbacks, bulk, loads,
                   compose, reply>>

\* the bulk load of the session
NextBulk ==
  \/ BulkListed
  \/ BulkListFailed
  \/ BulkHydrated

\* SpecStreams: the session of a user who only reads: the bulk load, the
\* streams and what the peers do
NextStreams ==
  \/ NextBulk
  \/ StreamDmsResolved
  \/ StreamAllMessagesResolved
  \/ StreamStartFailed
  \/ ConversationStreamOnValue
  \/ ConversationPeersResolved
  \/ MessageStreamOnValue
  \/ MessageFetchResolved
  \/ MessageFetchEmpty
  \/ MessageFetchFailed
  \/ PeerSends
  \/ PeerCreatesDm

SpecStreams == InitSession /\ [][NextStreams]_vars

\* SpecConsent: the session of SpecStreams with Dms whose consent state is not
\* allowed
NextConsent == NextStreams \/ StrangerCreatesDm

SpecConsent == InitSession /\ [][NextConsent]_vars

\* SpecSend: the session of a user who composes while the stream calls of the
\* session are still pending
NextSend ==
  \/ NextBulk
  \/ LoadMessagesResolved
  \/ LoadMessagesFailed
  \/ OpenCompose
  \/ CloseCompose
  \/ SetComposeTo
  \/ ComposeStart
  \/ ComposeDmCreated
  \/ ComposeFailed
  \/ ComposeSent
  \/ ComposePeersResolved
  \/ ComposeReloadResolved
  \/ ComposeReloadFailed

SpecSend == InitSession /\ [][NextSend]_vars

\* SpecSent: the session of a user who composes and replies: both send paths
\* up to their ends, with the bulk load and the selection of a conversation
NextSent ==
  \/ NextBulk
  \/ SelectConversationRow
  \/ OpenCompose
  \/ SetComposeTo
  \/ ComposeStart
  \/ ComposeDmCreated
  \/ ComposeFailed
  \/ ComposeSent
  \/ ComposePeersResolved
  \/ ComposeReloadResolved
  \/ ComposeReloadFailed
  \/ ReplyStart
  \/ ReplySent
  \/ ReplyFailed

SpecSent == InitSession /\ [][NextSent]_vars

\* SpecReply: the session of a user who selects conversations and replies
\* while the stream calls of the session are still pending
NextReply ==
  \/ NextBulk
  \/ LoadMessagesResolved
  \/ LoadMessagesFailed
  \/ SelectConversationRow
  \/ ReplyStart
  \/ ReplySent
  \/ ReplyFailed

SpecReply == InitSession /\ [][NextReply]_vars

\* the whole session; every behaviour of SpecStreams, SpecSend or SpecReply is
\* one of Spec
Next == NextConsent \/ NextSend \/ NextReply \/ NextSent

Spec == InitSession /\ [][Next]_vars

\* SpecRecipient: calls of parseRecipient on the texts that MaxParts parts make
RecipientParts ==
  { <<" ">>, <<"a">>, <<AtSign>>, XmtpDomain, <<"X", "m", "T", "p", ".", "M", "x">>,
    <<"b", ".", "c">> }

RECURSIVE flatten(_)
flatten(parts) == IF parts = <<>> THEN <<>> ELSE Head(parts) \o flatten(Tail(parts))

RecipientTexts == { flatten(parts) : parts \in SeqsUpTo(RecipientParts, MaxParts) }

InitRecipient ==
  /\ SessionStarted
  /\ composeOpen = TRUE
  /\ composeTo \in RecipientTexts
  /\ parsed = NoRecipient
  /\ sendError = Null
  /\ NoEnvelope
  /\ NoLookups

\* one call parseRecipient(composeTo)
ParseRecipientCall ==
  /\ parsed' = parseRecipient(composeTo)
  /\ UNCHANGED <<composeOpen, composeTo, sendError, envelopeVars, lookupVars, storeVars,
                 startupVars, syncVars>>

NextRecipient == ParseRecipientCall

SpecRecipient == InitRecipient /\ [][NextRecipient]_vars

\* SpecLookup: the calls of resolveInboxAddress of a session, step by step.
\* A lookup is a call that awaits Client.inboxStateFromInboxIds; next is the
\* inbox id its caller passes to resolveInboxAddress as soon as the call
\* returns (the sender of the message, in the handler of the message stream),
\* or Undefined.
\* resolveInboxAddress(inboxId) up to its await, as the last call of a caller
resolveLast(inboxId, st) ==
  IF inboxId = Undefined THEN st
  ELSE IF inboxId \in inboxDetailsRef
  THEN [st EXCEPT !.calls[inboxId].skipped = @ + 1]
  ELSE [calls |-> [st.calls EXCEPT ![inboxId].made = @ + 1],
        lookups |-> st.lookups \cup {[inboxId |-> inboxId, next |-> Undefined]}]

\* resolveInboxAddress(inboxId) up to its await: the address the ref holds is
\* returned and the caller goes on at once, or the network is asked
resolveInboxAddress(inboxId, next, st) ==
  IF inboxId \in inboxDetailsRef
  THEN resolveLast(next, [st EXCEPT !.calls[inboxId].skipped = @ + 1])
  ELSE [calls |-> [st.calls EXCEPT ![inboxId].made = @ + 1],
        lookups |-> st.lookups \cup {[inboxId |-> inboxId, next |-> next]}]

callsFor(inboxId) == identityCalls[inboxId].made + identityCalls[inboxId].skipped

\* a caller reaches resolveInboxAddress(inboxId): loadConversationPeers (bulk
\* load, conversation stream, compose), and the handler of the message stream,
\* which resolves the sender of the message after the peer of a fetched Dm
LookupStart ==
  \E inboxId \in InboxIds : \E next \in {Undefined, inboxId} :
    /\ callsFor(inboxId) + (IF next = Undefined THEN 0 ELSE 1) < MaxCalls
    /\ [inboxId |-> inboxId, next |-> next] \notin lookups
    /\ LET st == resolveInboxAddress(inboxId, next, [calls |-> identityCalls, lookups |-> lookups])
       IN /\ identityCalls' = st.calls
          /\ lookups' = st.lookups
    /\ UNCHANGED <<inboxDetailsRef, formVars, envelopeVars, storeVars, startupVars, syncVars>>

\* Client.inboxStateFromInboxIds answers: setInboxDetails, the address is
\* returned and the caller goes on
LookupResolved ==
  \E l \in lookups :
    /\ inboxDetails' = inboxDetails \cup {l.inboxId}
    /\ LET st == resolveLast(l.next, [calls |-> identityCalls, lookups |-> lookups \ {l}])
       IN /\ identityCalls' = st.calls
          /\ lookups' = st.lookups
    /\ UNCHANGED <<inboxDetailsRef, formVars, envelopeVars, storeVars, startupVars, net, subs,
                   starters, callbacks, bulk, loads, compose, reply>>

\* Client.inboxStateFromInboxIds throws: undefined is returned and the caller
\* goes on
LookupFailed ==
  \E l \in lookups :
    /\ LET st == resolveLast(l.next, [calls |-> identityCalls, lookups |-> lookups \ {l}])
       IN /\ identityCalls' = st.calls
          /\ lookups' = st.lookups
    /\ UNCHANGED <<inboxDetailsRef, formVars, envelopeVars, storeVars, startupVars, syncVars>>

\* the render after setInboxDetails and its effect:
\* inboxDetailsRef.current = inboxDetails
InboxDetailsEffect ==
  /\ inboxDetailsRef # inboxDetails
  /\ inboxDetailsRef' = inboxDetails
  /\ UNCHANGED <<lookups, identityCalls, formVars, envelopeVars, storeVars, startupVars, syncVars>>

NextLookup ==
  \/ LookupStart
  \/ LookupResolved
  \/ LookupFailed
  \/ InboxDetailsEffect

SpecLookup == InitSession /\ [][NextLookup]_vars

\* SpecEnvelope: calls of encodeXmtpEmailV1 and decodeXmtpEmail
TextChars == {"a", " ", Quote, Backslash, "\n"}

Texts == SeqsUpTo(TextChars, MaxTextLen)

EmailInputs ==
  [subject : Texts, body : Texts, from : {UndefinedText, <<>>, <<"f", Quote>>},
   to : {UndefinedText, <<"t">>}]

\* Date.now()
Times == {7, 1700}

\* the members a content that looks like an envelope is written with
MemberTexts ==
  [v |-> [absent |-> <<>>, one |-> <<"\"", "v", "\"", ":", "1">>, two |-> <<"\"", "v", "\"", ":", "2">>, text |-> <<"\"", "v", "\"", ":", "\"", "1", "\"">>,
          twice |-> <<"\"", "v", "\"", ":", "2", ",", "\"", "v", "\"", ":", "1">>],
   type |-> [absent |-> <<>>, email |-> <<"\"", "t", "y", "p", "e", "\"", ":", "\"", "e", "m", "a", "i", "l", "\"">>, other |-> <<"\"", "t", "y", "p", "e", "\"", ":", "\"", "t", "e", "x", "t", "\"">>],
   subject |-> [absent |-> <<>>, text |-> <<"\"", "s", "u", "b", "j", "e", "c", "t", "\"", ":", "\"", "a", "\\", "\"", "b", "\"">>, number |-> <<"\"", "s", "u", "b", "j", "e", "c", "t", "\"", ":", "1">>],
   body |-> [absent |-> <<>>, text |-> <<"\"", "b", "o", "d", "y", "\"", ":", "\"", " ", "c", "\\", "n", "\"">>, null |-> <<"\"", "b", "o", "d", "y", "\"", ":", "n", "u", "l", "l">>],
   from |-> [absent |-> <<>>, text |-> <<"\"", "f", "r", "o", "m", "\"", ":", "\"", "f", "\"">>, number |-> <<"\"", "f", "r", "o", "m", "\"", ":", "1">>],
   sentAt |-> [absent |-> <<>>, number |-> <<"\"", "s", "e", "n", "t", "A", "t", "\"", ":", "5">>, text |-> <<"\"", "s", "e", "n", "t", "A", "t", "\"", ":", "\"", "5", "\"">>]]

MemberKeys == <<"v", "type", "subject", "body", "from", "sentAt">>

Forms ==
  [v : DOMAIN MemberTexts.v, type : DOMAIN MemberTexts.type,
   subject : DOMAIN MemberTexts.subject, body : DOMAIN MemberTexts.body,
   from : DOMAIN MemberTexts.from, sentAt : DOMAIN MemberTexts.sentAt,
   wrap : {"plain", "padded", "cut", "more"}]

RECURSIVE joinMembers(_, _, _)
joinMembers(form, k, first) ==
  IF k > Len(MemberKeys) THEN <<>>
  ELSE LET member == MemberTexts[MemberKeys[k]][form[MemberKeys[k]]]
       IN IF member = <<>> THEN joinMembers(form, k + 1, first)
          ELSE (IF first THEN <<>> ELSE <<",">>) \o member \o joinMembers(form, k + 1, FALSE)

written(form) ==
  IF form.wrap = "plain" THEN <<"{">> \o joinMembers(form, 1, TRUE) \o <<"}">>
  ELSE IF form.wrap = "padded"
  THEN <<" ", "\n", "{", " ">> \o joinMembers(form, 1, TRUE) \o <<"\n", "}", " ">>
  ELSE IF form.wrap = "cut" THEN <<"{">> \o joinMembers(form, 1, TRUE)
  ELSE <<"{">> \o joinMembers(form, 1, TRUE) \o <<"}", "x">>

PlainTexts ==
  { <<>>, <<" ">>, <<" ", "\n">>, <<"p", "l", "a", "i", "n", " ", "t", "e", "x", "t">>, <<" ", "h", "i", " ">>, <<"\"", "e", "m", "a", "i", "l", "\"">>, <<"1">>, <<"n", "u", "l", "l">>, <<"t", "r", "u", "e">>,
    <<"{", "}">>, <<"{", " ", "}">>, <<"{", "\"", "v", "\"", ":", "1", ",", "\"", "t", "y", "p", "e", "\"", ":", "\"", "e", "m", "a", "i", "l", "\"", ",", "\"", "s", "u", "b", "j", "e", "c", "t", "\"", ":", "\"", "s", "\"", ",", "\"", "b", "o", "d", "y", "\"", ":", "\"", "b", "\"", "}", "{", "}">>,
    <<"{", "\"", "a", "\"", ":", "{", "\"", "v", "\"", ":", "1", ",", "\"", "t", "y", "p", "e", "\"", ":", "\"", "e", "m", "a", "i", "l", "\"", ",", "\"", "s", "u", "b", "j", "e", "c", "t", "\"", ":", "\"", "s", "\"", ",", "\"", "b", "o", "d", "y", "\"", ":", "\"", "b", "\"", "}", "}">> }

\* the contents of a message that decodeXmtpEmail is called with: strings
\* written like an envelope, other strings, and values that are no strings
RawContents ==
  { [type |-> "string", text |-> written(form), number |-> 0, form |-> form] : form \in Forms }
  \cup { [type |-> "string", text |-> text, number |-> 0, form |-> NoForm] : text \in PlainTexts }
  \cup { [type |-> type, text |-> <<>>, number |-> 0, form |-> NoForm] :
           type \in {"undefined", "null", "object"} }
  \cup { [type |-> "number", text |-> <<>>, number |-> n, form |-> NoForm] : n \in {0, 42} }

InitEnvelope ==
  /\ SessionStarted
  /\ FormClosed
  /\ NoLookups
  /\ \/ emailInput \in EmailInputs /\ content = NoContent
     \/ emailInput = NoEmail /\ content \in RawContents
  /\ decoded = NotDecoded

\* one call encodeXmtpEmailV1(emailInput); its value is the content of a message
EncodeCall ==
  \E now \in Times :
    /\ emailInput # NoEmail
    /\ content = NoContent
    /\ content' = [type |-> "string", text |-> encodeXmtpEmailV1(emailInput, now),
                   number |-> now, form |-> NoForm]
    /\ UNCHANGED <<emailInput, decoded, formVars, lookupVars, storeVars, startupVars, syncVars>>

\* one call decodeXmtpEmail(content)
DecodeCall ==
  /\ content # NoContent
  /\ decoded = NotDecoded
  /\ decoded' = decodeXmtpEmail(content)
  /\ UNCHANGED <<emailInput, content, formVars, lookupVars, storeVars, startupVars, syncVars>>

NextEnvelope == EncodeCall \/ DecodeCall

SpecEnvelope == InitEnvelope /\ [][NextEnvelope]_vars

\* C1: addMessages is idempotent per message id: a conversation's sequence
\* holds exactly one entry for every message id ever appended to it (and none
\* for any other id), and an append that brings no new id leaves the sequence
\* as it was, entry for entry.
CountOf(s, m) == Cardinality({ i \in DOMAIN s : s[i] = m })

C1_OneEntryPerId ==
  \A c \in DOMAIN messagesByConversation : \A m \in MsgIds :
    CountOf(messagesByConversation[c], m) = (IF m \in appended[c] THEN 1 ELSE 0)

C1_RepeatedAppendUnchanged ==
  \A c \in DOMAIN messagesByConversation :
    appended'[c] = appended[c] => messagesByConversation'[c] = messagesByConversation[c]

C1_IdempotentAppend ==
  [](C1_OneEntryPerId) /\ [][C1_RepeatedAppendUnchanged]_vars

\* witness: a conversation holds two messages, one of which was appended again
\* (the tie pair, so that the stable re-sort is exercised)
C1_Witness ==
  \E c \in DOMAIN messagesByConversation :
    /\ Len(messagesByConversation[c]) >= 2
    /\ {NumMsgs - 1, NumMsgs} \subseteq Range(messagesByConversation[c])

\* C2: order convergence: when the messages appended to a conversation have
\* pairwise distinct sentAtNs, its sequence is the one ascending arrangement of
\* exactly those messages, whatever the order and batching of the appends.
DistinctSentAt(S) == \A a, b \in S : a # b => sentAtNs(a) # sentAtNs(b)

IsAscending(s) == \A i, j \in DOMAIN s : i < j => sentAtNs(s[i]) < sentAtNs(s[j])

C2_OrderConvergence ==
  \A c \in DOMAIN messagesByConversation :
    DistinctSentAt(appended[c]) =>
      /\ Range(messagesByConversation[c]) = appended[c]
      /\ Len(messagesByConversation[c]) = Cardinality(appended[c])
      /\ IsAscending(messagesByConversation[c])

\* witness: three messages with distinct timestamps are in one sequence
C2_Witness ==
  \E c \in DOMAIN messagesByConversation :
    /\ Len(messagesByConversation[c]) >= 3
    /\ DistinctSentAt(appended[c])

\* C9: selection fallback: after every step the selection is null or the id
\* of an item of the projected list, and null only when the list is empty; and
\* a step that changes the projected list so that the selection is no longer
\* in it moves the selection to the first item of the new list (null if none).
ProjectedList == conversationList(conversationsById, search)

C9_SelectionInList ==
  /\ selectedConversationId = Null => ProjectedList = <<>>
  /\ selectedConversationId # Null => selectedConversationId \in Range(ProjectedList)

C9_FallbackStep ==
  LET before == conversationList(conversationsById, search)
      after == conversationList(conversationsById', search')
  IN (after # before /\ selectedConversationId \notin Range(after))
       => selectedConversationId' = (IF after = <<>> THEN Null ELSE after[1])

C9_SelectionFallback == [](C9_SelectionInList) /\ [][C9_FallbackStep]_vars

\* witness: a real conversation is selected while the search text matches
\* neither the welcome item nor every conversation of the store
C9_Witness ==
  /\ selectedConversationId \in ConvIds
  /\ ~matchesWelcome(search)
  /\ Len(ProjectedList) < Len(conversationsById)

\* C10: the welcome item is the first item of the projected list exactly when
\* the trimmed search text is empty or occurs, letter case ignored, in the
\* welcome subject, preview or body; it is never at another position.
SameLetter(a, b) == lowerChar(a) = lowerChar(b)

OccursIn(text, q) ==
  \E start \in 0..(Len(text) - Len(q)) : \A k \in 1..Len(q) : SameLetter(text[start + k], q[k])

IsBlank(s) == \A i \in DOMAIN s : isWhiteSpace(s[i])

\* the text between the first and the last character that is no white space
Core(s) ==
  IF IsBlank(s) THEN <<>>
  ELSE LET nonBlank == { i \in DOMAIN s : ~isWhiteSpace(s[i]) }
           first == CHOOSE i \in nonBlank : \A j \in nonBlank : i <= j
           last == CHOOSE i \in nonBlank : \A j \in nonBlank : j <= i
       IN SubSeq(s, first, last)

WelcomeShouldShow ==
  \/ IsBlank(search)
  \/ OccursIn(WelcomeSubject, Core(search))
  \/ OccursIn(WelcomePreview, Core(search))
  \/ OccursIn(WelcomeBody, Core(search))

C10_WelcomeFirst ==
  /\ WelcomeShouldShow <=> (ProjectedList # <<>> /\ ProjectedList[1] = WELCOME_CONVERSATION_ID)
  /\ \A i \in DOMAIN ProjectedList : i > 1 => ProjectedList[i] # WELCOME_CONVERSATION_ID

\* witnesses: a non-empty query that matches the body only shows the welcome
\* item first, ahead of a conversation; a query that matches nothing hides it
C10_Witness ==
  /\ Core(search) = <<"g">>
  /\ Len(ProjectedList) >= 2
  /\ ProjectedList[1] = WELCOME_CONVERSATION_ID

\* C8 as claimed: a call of initializeXmtpClient starts an initialisation only
\* when the security module is ready, the thirdweb client id status is valid,
\* a wallet is connected and no client exists or is being created; so at most
\* one initialisation is in flight.
InitsInFlight == initCalls.signer + initCalls.create

InitStarts == InitsInFlight' > InitsInFlight

C8_StartGatedOnValid ==
  InitStarts =>
    /\ isWasmInitialized
    /\ thirdwebClientIdStatus = "valid"
    /\ activeWallet
    /\ xmtpClient = Null
    /\ ~xmtpLoading

C8_StartGated ==
  InitStarts =>
    /\ isWasmInitialized
    /\ thirdwebClientIdStatus # "missing"
    /\ activeWallet
    /\ xmtpClient = Null
    /\ ~xmtpLoading
    /\ xmtpLoading'

KeepsFields(id) ==
  (hasConversation(conversationsById, id) /\ hasConversation(conversationsById', id)) =>
    /\ getConversation(conversationsById, id).peerAddress # Undefined
         => getConversation(conversationsById', id).peerAddress # Undefined
    /\ getConversation(conversationsById, id).lastMessage # NoMsg
         => getConversation(conversationsById', id).lastMessage # NoMsg

C3_NonDestructiveStep == bulk' = bulk => \A id \in ConvIds : KeepsFields(id)

C3_NonDestructiveUpsert == [][C3_NonDestructiveStep]_vars

\* C4: when the send of handleSendReply resolves, that step appends the
\* confirmed message to the conversation's sequence and makes it the
\* conversation's lastMessage.
ReplyConfirmed == reply.pc = "send" /\ reply'.pc = "idle" /\ net'.msgs # net.msgs

C4_ReplyStep ==
  ReplyConfirmed =>
    \A m \in net'.msgs \ net.msgs :
      /\ reply.conversation \in DOMAIN messagesByConversation'
      /\ m \in Range(messagesByConversation'[reply.conversation])
      /\ hasConversation(conversationsById', reply.conversation)
      /\ getConversation(conversationsById', reply.conversation).lastMessage = m

C4_ReplyFeedsStore == [][C4_ReplyStep]_vars

\* C5: when handleComposeSend ends after a confirmed send, the store holds the
\* conversation's record with the sent message as lastMessage and the sent
\* message in its sequence, as a delivery by the message stream leaves it.
ComposeEnds == compose.pc = "reload" /\ compose'.pc = "idle"

C5_ComposeStep ==
  ComposeEnds =>
    /\ hasConversation(conversationsById', compose.dm)
    /\ getConversation(conversationsById', compose.dm).lastMessage = compose.sent
    /\ compose.dm \in DOMAIN messagesByConversation'
    /\ compose.sent \in Range(messagesByConversation'[compose.dm])

C5_ComposeConverges == [][C5_ComposeStep]_vars

\* C6: a handler that was started before the teardown of its effect run
\* (isMounted is false) changes neither conversationsById nor
\* messagesByConversation when its lookups return.
StaleCallbackReturns ==
  \E cb \in callbacks : cb.wasLive /\ ~cb.live /\ cb \notin callbacks'

C6_FrozenStep ==
  StaleCallbackReturns =>
    /\ conversationsById' = conversationsById
    /\ messagesByConversation' = messagesByConversation

C6_CancelledStoreFrozen == [][C6_FrozenStep]_vars

\* C7: every open subscription was opened by the effect run that is current
\* (the subscriptions of a run whose cleanup has run are all returned), and at
\* most one conversation subscription and one message subscription are open.
OpenSubs(kind) == { s \in subs : s.kind = kind }

C7_TeardownCancelsBoth ==
  /\ \A s \in subs : s.live
  /\ Cardinality(OpenSubs("dms")) <= 1
  /\ Cardinality(OpenSubs("msgs")) <= 1

\* C11: parseRecipient classifies every text: a blank text is invalid with
\* "Recipient is required."; a text without '@' is the direct (xmtp) variant
\* with the trimmed text as identifier; a text split at its last '@' into a
\* local part and a domain is invalid when either is blank, direct with the
\* local part as identifier when the domain is xmtp.mx in any letter case, and
\* the third (smtp) variant for any other domain.
SameText(a, b) == Len(a) = Len(b) /\ \A i \in DOMAIN a : SameLetter(a[i], b[i])

IsLastAt(text, i) == text[i] = AtSign /\ \A j \in DOMAIN text : j > i => text[j] # AtSign

C11_SplitAt(text, i) ==
  LET localPart == Core(SubSeq(text, 1, i - 1))
      domainPart == Core(SubSeq(text, i + 1, Len(text)))
  IN /\ (localPart = <<>> \/ domainPart = <<>>) => parsed.kind = "invalid"
     /\ (localPart # <<>> /\ SameText(domainPart, XmtpDomain))
          => parsed.kind = "xmtp" /\ parsed.peer = localPart
     /\ (localPart # <<>> /\ domainPart # <<>> /\ ~SameText(domainPart, XmtpDomain))
          => parsed.kind = "smtp"

C11_RecipientClassified ==
  parsed.kind # "none" =>
    /\ parsed.kind \in {"invalid", "xmtp", "smtp"}
    /\ IsBlank(composeTo)
         => parsed.kind = "invalid" /\ parsed.error = "Recipient is required."
    /\ (~IsBlank(composeTo) /\ AtSign \notin Range(composeTo))
         => parsed.kind = "xmtp" /\ parsed.peer = Core(composeTo)
    /\ \A i \in DOMAIN Core(composeTo) :
         IsLastAt(Core(composeTo), i) => C11_SplitAt(Core(composeTo), i)

\* witness: a text whose local part holds an '@' and whose domain is xmtp.mx
\* in mixed case was parsed to the direct variant
C11_Witness ==
  /\ parsed.kind = "xmtp"
  /\ AtSign \in Range(parsed.peer)
  /\ "X" \in Range(composeTo)

\* C12: envelope round trip: decoding what encodeXmtpEmailV1 wrote for a
\* subject, a body and optional from and to gives kind email with the trimmed
\* subject, the body as it was, and from and to as they were given.
C12_RoundTrip ==
  (emailInput # NoEmail /\ decoded # NotDecoded) =>
    /\ decoded.kind = "email"
    /\ decoded.subject = Core(emailInput.subject)
    /\ decoded.body = emailInput.body
    /\ decoded.from = emailInput.from
    /\ decoded.to = emailInput.to

\* witness: an input whose subject is trimmed, whose body holds a quote and a
\* backslash and whose from is given was encoded and decoded to an email
C12_Witness ==
  /\ emailInput # NoEmail
  /\ decoded.kind = "email"
  /\ emailInput.subject # Core(emailInput.subject)
  /\ {Quote, Backslash} \subseteq Range(emailInput.body)
  /\ emailInput.from # UndefinedText

\* C13: the fallback of decodeXmtpEmail is total and verbatim: every content
\* gives a value; a string that is no version-1 email envelope (no JSON, other
\* v or type, subject or body no string) gives kind text with the string as it
\* was; a blank string gives the text ""; a content that is no string gives
\* kind text with its string coercion.
IsEnvelope(value) ==
  /\ value.form.v \in {"one", "twice"}
  /\ value.form.type = "email"
  /\ value.form.subject = "text"
  /\ value.form.body = "text"
  /\ value.form.wrap \in {"plain", "padded"}

\* String(value) of a value that is no string
StringOf(value) ==
  IF value.type = "undefined" THEN <<"u", "n", "d", "e", "f", "i", "n", "e", "d">>
  ELSE IF value.type = "null" THEN <<"n", "u", "l", "l">>
  ELSE IF value.type = "number" THEN (IF value.number = 0 THEN <<"0">> ELSE <<"4", "2">>)
  ELSE <<"[", "o", "b", "j", "e", "c", "t", " ", "O", "b", "j", "e", "c", "t", "]">>

C13_StringFallback ==
  /\ decoded.kind \in {"email", "text"}
  /\ (content.type = "string" /\ IsBlank(content.text))
       => decoded.kind = "text" /\ decoded.text = <<>>
  /\ (content.type = "string" /\ ~IsBlank(content.text) /\ ~IsEnvelope(content))
       => decoded.kind = "text" /\ decoded.text = content.text

C14_NoRedundantCall ==
  \A inboxId \in InboxIds :
    identityCalls'[inboxId].made > identityCalls[inboxId].made => inboxId \notin inboxDetails'

C14_CacheShortCircuit == [][C14_NoRedundantCall]_vars

\* C15: an invalid or unsupported-domain recipient is rejected before any
\* network call: a handleComposeSend whose parseRecipient(composeTo) is invalid
\* or smtp ends at once with the compose error set and the sending flag
\* cleared, it changes neither the network nor conversationsById,
\* messagesByConversation or the identity cache, and a handleComposeSend that
\* is at one of its awaits has an xmtp recipient.
C15_Rejected ==
  /\ (ComposeStart /\ parsed'.kind \in {"invalid", "smtp"}) =>
       /\ compose'.pc = "idle"
       /\ compose'.error # Null
       /\ compose'.error = (IF parsed'.kind = "smtp" THEN SmtpError ELSE parsed'.error)
       /\ net' = net
       /\ conversationsById' = conversationsById
       /\ messagesByConversation' = messagesByConversation
       /\ inboxDetails' = inboxDetails
  /\ compose'.pc # "idle" => parsed'.kind = "xmtp"

C15_RejectedBeforeNetwork == [][C15_Rejected]_vars

\* the unsupported-domain recipient has been rejected while the store holds a
\* conversation
C15_Witness ==
  /\ parsed.kind = "smtp"
  /\ compose.pc = "idle"
  /\ compose.error = SmtpError
  /\ composeOpen
  /\ \E id \in ConvIds : hasConversation(conversationsById, id)

\* C16: a lookup-degradation error never becomes a send error: once
\* handleComposeSend has sent its message, no step sets the compose error,
\* whatever the peer inbox lookup, the address resolution and the reload of the
\* messages do, and the handler ends with the form closed and cleared; and a
\* reply whose send has resolved leaves the reply error unset.
C16_Step ==
  /\ compose.sent # NoMsg => compose'.error = Null
  /\ (compose.sent # NoMsg /\ compose'.pc = "idle") => (~composeOpen' /\ composeTo' = <<>>)
  /\ ReplyConfirmed => sendError' = Null

C16_LookupNeverFailsSend == [][C16_Step]_vars

\* handleComposeSend has ended without an error, the form closed and cleared,
\* after a send whose peer lookup gave no address and whose reload failed: the
\* sent message is on the network and not in the store
C16_Witness ==
  /\ compose.pc = "idle"
  /\ compose.error = Null
  /\ parsed.kind = "xmtp"
  /\ ~composeOpen
  /\ composeTo = <<>>
  /\ \E dm \in ConvIds :
       /\ selectedConversationId = dm
       /\ hasConversation(conversationsById, dm)
       /\ getConversation(conversationsById, dm).peerAddress = Undefined
       /\ \E m \in net.msgs :
            /\ conversationIdOf(m) = dm
            /\ \A n \in InitialNetworks : m \notin n.msgs
            /\ dm \in DOMAIN messagesByConversation => m \notin Range(messagesByConversation[dm])

\* C17: an initialization failure is a status, not an exception: when the
\* signer or Client.create fails, initializeXmtpClient ends with the message in
\* xmtpError, xmtpLoading false and xmtpClient still null; when the WASM
\* module fails, wasmError is set and the module is not ready, then and later.
C17_Step ==
  /\ (SignerFailed \/ CreateFailed) =>
       /\ xmtpError' # Null
       /\ ~xmtpLoading'
       /\ xmtpClient' = Null
  /\ WasmInitFailed => (wasmError' # Null /\ ~isWasmInitialized')
  /\ wasmError' # Null => ~isWasmInitialized'

C17_InitFailureIsStatus == [][C17_Step]_vars

\* an initializeXmtpClient call of a connected wallet has failed
C17_Witness ==
  /\ xmtpError # Null
  /\ ~xmtpLoading
  /\ xmtpClient = Null
  /\ isWasmInitialized
  /\ activeWallet
  /\ initCalls = [signer |-> 0, create |-> 0]

\* C18: the bulk load and the streams write through the same merge, so the
\* order of arrival does not matter: for a conversation that loadConversations
\* is about to write and a handler of a stream is about to upsert, the record
\* is the same whether the summary of the bulk load or the summary of the
\* stream event is applied to the store first.
bulkFirst(id, hydrated, summary) ==
  upsertConversationSummary(replaceSummary(conversationsById, hydrated), id, summary)

streamFirst(id, hydrated, summary) ==
  replaceSummary(upsertConversationSummary(conversationsById, id, summary), hydrated)

C18_OrderIndependent ==
  bulk.pc = "hydrate" =>
    \A cb \in callbacks :
      (cb.live /\ cb.conversation \in Range(bulk.convos)) =>
        \A peers \in PeerLookups(cb.conversation, inboxDetails),
           lastMessage \in lastMessages(cb.conversation, net.msgs) :
          LET id == cb.conversation
              hydrated == hydratedSummary(id, peers, lastMessage)
              summary == streamSummary(cb, peers)
          IN getConversation(bulkFirst(id, hydrated, summary), id)
               = getConversation(streamFirst(id, hydrated, summary), id)

\* C19: streaming starts only after the bulk load: while the loadConversations
\* of the session has not completed, no subscription of a stream is open and
\* no handler of a stream is running, so no stream event is applied to the
\* store.
C19_StreamingAfterBulk ==
  bulk.pc # "done" => (subs = {} /\ callbacks = {})

\* C20: self-healing on stream reordering: a handler of the message stream
\* that has awaited getConversationById appends its message only together with
\* the upsert of the conversation's record, which then has the message as
\* lastMessage; a handler that starts a fetch appends nothing before the fetch
\* has returned; and no fetch is started for a conversation that has a record
\* in the store.
FetchReturned(cb) == cb \in callbacks /\ cb \notin callbacks' /\ cb.kind = "message"

FetchStarted(cb) == cb \notin callbacks /\ callbacks' = callbacks \cup {cb} /\ cb.kind = "message"

Appended(cb) ==
  /\ cb.conversation \in DOMAIN messagesByConversation'
  /\ cb.message \in Range(messagesByConversation'[cb.conversation])
  /\ cb.conversation \in DOMAIN messagesByConversation =>
       cb.message \notin Range(messagesByConversation[cb.conversation])

C20_UpsertBeforeAppend ==
  \A cb \in callbacks :
    (FetchReturned(cb) /\ Appended(cb)) =>
      /\ hasConversation(conversationsById', cb.conversation)
      /\ getConversation(conversationsById', cb.conversation).lastMessage = cb.message

C20_NoAppendBeforeFetch ==
  \A cb \in callbacks' :
    FetchStarted(cb) => messagesByConversation' = messagesByConversation

C20_NoFetchWhenKnown ==
  \A cb \in callbacks' :
    FetchStarted(cb) => ~hasConversation(conversationsById, cb.conversation)

C20_Step == C20_UpsertBeforeAppend /\ C20_NoAppendBeforeFetch /\ C20_NoFetchWhenKnown

C20_SelfHealing == [][C20_Step]_vars

\* C21: failures inside the handler of the message stream degrade: whatever
\* getConversationById and the peer lookup do, a handler that has awaited the
\* fetch ends with its message in the sequence of the message's conversation.
C21_Step ==
  \A cb \in callbacks :
    FetchReturned(cb) =>
      /\ cb.conversation \in DOMAIN messagesByConversation'
      /\ cb.message \in Range(messagesByConversation'[cb.conversation])

C21_HandlerDegrades == [][C21_Step]_vars

\* C22: the bulk load tolerates partial failure: when the list call has
\* succeeded, every listed conversation has a record after the load, whatever
\* its lookups did; the record holds the conversation's own inbox id and
\* address or undefined, the newest message or undefined, and the address
\* when the identity lookup of the conversation resolved in this load; the
\* records of the other conversations are left alone; and when the list call
\* fails the store is unchanged and loadConversations ends.
BulkWrites == bulk.pc = "hydrate" /\ bulk'.pc = "done"

BulkListFails == bulk.pc = "list" /\ bulk'.pc = "done"

C22_Step ==
  /\ BulkWrites =>
       /\ \A id \in Range(bulk.convos) :
            /\ hasConversation(conversationsById', id)
            /\ LET record == getConversation(conversationsById', id)
                   inbox == InboxName(IndexOfConv(id))
                   address == AddressName(IndexOfConv(id))
               IN /\ record.peerInboxId \in {inbox, Undefined}
                  /\ record.peerAddress \in {address, Undefined}
                  /\ record.lastMessage \in {lastOf(messagesOnNetwork(id, net.msgs)), NoMsg}
                  /\ (inbox \in inboxDetails' /\ inbox \notin inboxDetails) =>
                       (record.peerInboxId = inbox /\ record.peerAddress = address)
       /\ \A id \in ConvIds \ Range(bulk.convos) :
            /\ hasConversation(conversationsById', id) = hasConversation(conversationsById, id)
            /\ hasConversation(conversationsById, id) =>
                 getConversation(conversationsById', id) = getConversation(conversationsById, id)
  /\ BulkListFails =>
       /\ conversationsById' = conversationsById
       /\ messagesByConversation' = messagesByConversation

C22_BulkPartialFailure == [][C22_Step]_vars

\* the bulk load has written two conversations, before any stream was open:
\* one whose lookups failed and one with its address and its newest message
C22_Witness ==
  /\ bulk.pc = "done"
  /\ subs = {}
  /\ callbacks = {}
  /\ \E a, b \in ConvIds :
       /\ a # b
       /\ hasConversation(conversationsById, a)
       /\ hasConversation(conversationsById, b)
       /\ getConversation(conversationsById, a).peerAddress = Undefined
       /\ getConversation(conversationsById, a).lastMessage = NoMsg
       /\ getConversation(conversationsById, b).peerAddress # Undefined
       /\ getConversation(conversationsById, b).lastMessage # NoMsg

\* C23: the per-conversation sequence invariant: in every state every
\* sequence holds no id twice and is in strictly ascending sentAtNs order,
\* also when two different messages carry the same sentAtNs, and appending two
\* messages to it gives the same sequence in either order of arrival.
BothOrdersAgree(c, a, b) ==
  addMessages(addMessages(messagesByConversation, c, <<a>>), c, <<b>>)[c]
    = addMessages(addMessages(messagesByConversation, c, <<b>>), c, <<a>>)[c]

C23_SequenceInvariant ==
  \A c \in DOMAIN messagesByConversation :
    /\ \A m \in MsgIds : CountOf(messagesByConversation[c], m) <= 1
    /\ IsAscending(messagesByConversation[c])
    /\ \A a, b \in MsgIds : BothOrdersAgree(c, a, b)

\* C24: nothing is dropped during a session: every step keeps every
\* conversation id of conversationsById and every message id of every
\* sequence, and a step that brings no new message id to a sequence leaves the
\* sequence as it was, entry for entry.
StoredIds(byId) == { id \in ConvIds : hasConversation(byId, id) }

C24_Step ==
  /\ StoredIds(conversationsById) \subseteq StoredIds(conversationsById')
  /\ \A c \in DOMAIN messagesByConversation :
       /\ c \in DOMAIN messagesByConversation'
       /\ Range(messagesByConversation[c]) \subseteq Range(messagesByConversation'[c])
       /\ Range(messagesByConversation'[c]) = Range(messagesByConversation[c]) =>
            messagesByConversation'[c] = messagesByConversation[c]

ProjectedReal == xmtpConversationList(conversationsById, search)

SortKey(c) == IF c.lastMessage # NoMsg THEN sentAtNs(c.lastMessage) ELSE createdAtNs(c.id)

StoreIndex(id) == CHOOSE i \in DOMAIN conversationsById : conversationsById[i].id = id

LabelMatches(c) == IsBlank(search) \/ OccursIn(label(c), Core(search))

C25_Filter ==
  /\ \A c \in Range(ProjectedReal) : c \in Range(conversationsById)
  /\ \A c \in Range(conversationsById) :
       Cardinality({ i \in DOMAIN ProjectedReal : ProjectedReal[i] = c })
         = (IF LabelMatches(c) THEN 1 ELSE 0)

C25_Sort ==
  \A i, j \in DOMAIN ProjectedReal :
    i < j =>
      /\ SortKey(ProjectedReal[i]) >= SortKey(ProjectedReal[j])
      /\ SortKey(ProjectedReal[i]) = SortKey(ProjectedReal[j]) =>
           StoreIndex(ProjectedReal[i].id) < StoreIndex(ProjectedReal[j].id)

C25_FilterAndSort == C25_Filter /\ C25_Sort

\* C26: the stall timers are informational only: a step in which a stalled
\* flag goes up changes nothing else, so the pending operation is neither
\* cancelled nor restarted nor failed; and a step that starts an
\* initialization leaves the client-init stalled flag down.
WasmTimerFires == ~wasmInitStalled /\ wasmInitStalled'

InitTimerFires == ~xmtpInitStalled /\ xmtpInitStalled'

C26_Step ==
  /\ WasmTimerFires =>
       UNCHANGED <<isWasmInitialized, wasmError, thirdwebClientIdStatus, activeWallet,
                   xmtpClient, xmtpLoading, xmtpError, xmtpInitStalled, initCalls,
                   initEffectPending, storeVars, syncVars>>
  /\ InitTimerFires =>
       UNCHANGED <<isWasmInitialized, wasmError, wasmInitStalled, thirdwebClientIdStatus,
                   activeWallet, xmtpClient, xmtpLoading, xmtpError, initCalls,
                   initEffectPending, storeVars, syncVars>>
  /\ InitStarts => ~xmtpInitStalled'

C26_TimersInformational == [][C26_Step]_vars

\* both timers have fired and both operations have completed all the same
C26_Witness ==
  /\ wasmInitStalled
  /\ isWasmInitialized
  /\ xmtpInitStalled
  /\ xmtpClient # Null

\* C27: the store only holds allowed direct conversations: in every state
\* every record of conversationsById is the record of a Dm whose consent state
\* is allowed.
C27_OnlyAllowed ==
  \A id \in StoredIds(conversationsById) : id \in net.convs /\ id \notin net.pending

\* C28: a conversation's lastMessage never goes backwards: a step neither
\* unsets the lastMessage of a record nor replaces it with a message of a
\* smaller sentAtNs, and the lastMessage of a record is at least as recent as
\* every message of the conversation's sequence.
NotOlder(a, b) == a # NoMsg /\ sentAtNs(a) >= sentAtNs(b)

C28_Monotone ==
  \A id \in StoredIds(conversationsById) :
    getConversation(conversationsById, id).lastMessage # NoMsg =>
      /\ hasConversation(conversationsById', id)
      /\ NotOlder(getConversation(conversationsById', id).lastMessage,
                  getConversation(conversationsById, id).lastMessage)

C28_CoversSequence ==
  \A id \in StoredIds(conversationsById') :
    id \in DOMAIN messagesByConversation' =>
      \A m \in Range(messagesByConversation'[id]) :
        NotOlder(getConversation(conversationsById', id).lastMessage, m)

C28_Step == C28_Monotone /\ C28_CoversSequence

C28_LastMessageMonotone == [][C28_Step]_vars

\* C29: every conversation id that has a message sequence in
\* messagesByConversation has a record in conversationsById.
C29_SequencesHaveRecords ==
  \A id \in DOMAIN messagesByConversation : hasConversation(conversationsById, id)

\* C30: a failed client initialisation stays failed until the user retries:
\* while xmtpError is set and xmtpLoading is false, the effect that calls
\* initializeXmtpClient is scheduled only by a change of the wallet or of the
\* security module, never by the end of the failed attempt itself.
InitializationFailed(error, loading) == error # Null /\ ~loading

EffectScheduled == initEffectPending' /\ ~initEffectPending

WalletOrWasmChanged ==
  \/ activeWallet' # activeWallet
  \/ isWasmInitialized' # isWasmInitialized
  \/ wasmError' # wasmError

C30_Step ==
  (InitializationFailed(xmtpError', xmtpLoading') /\ EffectScheduled) => WalletOrWasmChanged

C30_FailedStaysFailed == [][C30_Step]_vars

====
